---- MODULE Spec2Model ----
(***************************************************************************)
(* paycoinpro-node: the request executor (APIClient.request / makeRequest, *)
(* lib/api.ts), its header merge and buildURL, the calls that share one    *)
(* client, the second revision of the client, the webhook verifiers (three *)
(* revisions of Webhooks), the loop of secureCompare and                   *)
(* getSignatureFromHeaders.                                                *)
(*                                                                         *)
(* Optional values (T | undefined) are sequences of length 0 or 1.         *)
(* Strings that the code inspects character by character are sequences of  *)
(* one-character strings.                                                  *)
(***************************************************************************)
EXTENDS Integers, Sequences, FiniteSets, TLC

\* ------------------------------------------------------------------ bounds
\* Largest retry budget a caller or a configuration supplies in the model.
MaxBudget == 2
\* Random draws of Math.random() are j / JitterDen for some j in 0..JitterDen-1.
JitterDen == 4
\* Longest string given to secureCompare when its loop is followed step by step.
MaxCompareLen == 3
\* Longest webhook payload string, in characters.
MaxPayloadLen == 2
\* Date.now() / 1000 at the time of a verification call.
Now == 400
\* A tolerance a caller passes instead of the default one.
SmallTolerance == 2
\* calculateBackoff is applied to the attempt indexes 0 .. MaxAttemptIndex.
MaxAttemptIndex == 6
\* The requests issued through one client instance.
MaxRequests == 2

\* ------------------------------------------------------- program constants
DEFAULT_MAX_RETRIES == 2
baseDelay == 1000
maxDelay == 30000
defaultTolerance == 300

\* ----------------------------------------------------------------- helpers
Undef == << >>
Some(x) == << x >>
\* a ?? b
Nullish(a, b) == IF a = Undef THEN b ELSE a[1]

Min(a, b) == IF a <= b THEN a ELSE b

RECURSIVE Pow2(_)
Pow2(n) == IF n <= 0 THEN 1 ELSE 2 * Pow2(n - 1)

\* ------------------------------------------------ the executor's input sets
\* Statuses a physical call may answer: success, a redirect left unfollowed,
\* every row of the status table, a 4xx and a 5xx outside the table.
Statuses == {200, 302, 400, 401, 403, 404, 409, 418, 422, 429, 500, 501, 502, 503, 504}
ResponseOk(status) == status >= 200 /\ status <= 299

\* Values a rejected promise (fetch, response.json) carries: name, message,
\* and whether the value is an Error at all. The network primitive rejects
\* with an AbortError only when the signal it was given has aborted.
AbortErr == [isError |-> TRUE, name |-> "AbortError", msg |-> "The operation was aborted"]
FetchFailed == [isError |-> TRUE, name |-> "TypeError", msg |-> "fetch failed"]
NetworkErr == [isError |-> TRUE, name |-> "Error", msg |-> "network unreachable"]
LoadFailed == [isError |-> TRUE, name |-> "TypeError", msg |-> "Load failed"]
JsonErr == [isError |-> TRUE, name |-> "SyntaxError", msg |-> "Unexpected token < in JSON at position 0"]
FetchRejections == {AbortErr, FetchFailed, NetworkErr, LoadFailed}
JsonRejections == {JsonErr, AbortErr}

\* error.message.includes(word), for the messages above.
MsgIncludes(msg, word) ==
    \/ word = "fetch" /\ msg = "fetch failed"
    \/ word = "network" /\ msg = "network unreachable"

\* Decoded JSON bodies: {data: ...}, a bare payload, {error: {code, message}}.
Bodies == {"data", "plain", "errobj"}

\* retry-after header values, as the characters received.
RetryAfterHeaders == {Undef, Some(<<"0">>), Some(<<"1">>), Some(<<"4", "0">>)}

\* ------------------------------------------------------------ lib/errors.ts
NoRetryAfter == [def |-> FALSE, nan |-> FALSE, v |-> 0]

DigitVal(c) ==
    CASE c = "0" -> 0 [] c = "1" -> 1 [] c = "2" -> 2 [] c = "3" -> 3 [] c = "4" -> 4
      [] c = "5" -> 5 [] c = "6" -> 6 [] c = "7" -> 7 [] c = "8" -> 8 [] c = "9" -> 9
      [] OTHER -> -1
IsDigit(c) == DigitVal(c) >= 0

\* parseInt(s, 10) on the digits that lead s; NaN when there is none.
RECURSIVE ParseDigits(_, _, _)
ParseDigits(s, i, acc) ==
    IF i > Len(s) \/ ~IsDigit(s[i]) THEN acc
    ELSE ParseDigits(s, i + 1, 10 * acc + DigitVal(s[i]))

parseInt(s) ==
    LET neg == Len(s) >= 1 /\ s[1] = "-"
        from == IF neg THEN 2 ELSE 1
    IN  IF from > Len(s) \/ ~IsDigit(s[from])
        THEN [def |-> TRUE, nan |-> TRUE, v |-> 0]
        ELSE [def |-> TRUE, nan |-> FALSE,
              v |-> IF neg THEN 0 - ParseDigits(s, from, 0) ELSE ParseDigits(s, from, 0)]

\* RateLimitError's constructor: retryAfter is set only for a non-empty header.
RateLimitRetryAfter(hdr) ==
    IF hdr = Undef \/ hdr[1] = << >> THEN NoRetryAfter ELSE parseInt(hdr[1])

\* Error bodies: data?.error, absent or {code, message}.
NoErrorBody == Undef
ErrorBody == Some([code |-> "invalid_request", message |-> "Bad request"])

\* An error instance; attempt names the physical attempt that constructed it.
Err(kind, status, ra, att, code) ==
    [kind |-> kind, status |-> status, ra |-> ra, attempt |-> att, code |-> code]

APIKinds == {"BadRequestError", "AuthenticationError", "PermissionDeniedError",
             "NotFoundError", "ConflictError", "UnprocessableEntityError",
             "RateLimitError", "InternalServerError", "APIError"}
IsAPIError(e) == e.kind \in APIKinds
ClassifiedKinds == APIKinds \cup {"TimeoutError", "ConnectionError"}

\* A switch whose server-error case takes every status from 500 up.
StatusKindAll5xx(status) ==
    CASE status = 400 -> "BadRequestError"
      [] status = 401 -> "AuthenticationError"
      [] status = 403 -> "PermissionDeniedError"
      [] status = 404 -> "NotFoundError"
      [] status = 409 -> "ConflictError"
      [] status = 422 -> "UnprocessableEntityError"
      [] status = 429 -> "RateLimitError"
      [] status >= 500 -> "InternalServerError"
      [] OTHER -> "APIError"

StatusKind(status) ==
    CASE status = 400 -> "BadRequestError"
      [] status = 401 -> "AuthenticationError"
      [] status = 403 -> "PermissionDeniedError"
      [] status = 404 -> "NotFoundError"
      [] status = 409 -> "ConflictError"
      [] status = 422 -> "UnprocessableEntityError"
      [] status = 429 -> "RateLimitError"
      [] status \in {500, 502, 503, 504} -> "InternalServerError"
      [] OTHER -> "APIError"

\* The status each error class hands to super(): its own literal, except
\* InternalServerError and APIError, which pass on the one they were given.
ConstructedStatus(kind, status) ==
    CASE kind = "BadRequestError" -> 400
      [] kind = "AuthenticationError" -> 401
      [] kind = "PermissionDeniedError" -> 403
      [] kind = "NotFoundError" -> 404
      [] kind = "ConflictError" -> 409
      [] kind = "UnprocessableEntityError" -> 422
      [] kind = "RateLimitError" -> 429
      [] OTHER -> status

\* APIError.fromResponse(status, headers, error): att names the instance.
fromResponse(status, hdr, error, att) ==
    Err(StatusKind(status), ConstructedStatus(StatusKind(status), status),
        IF status = 429 THEN RateLimitRetryAfter(hdr) ELSE NoRetryAfter, att,
        IF error = Undef THEN "unknown_error" ELSE error[1].code)

\* ------------------------------------------------------------- lib/api.ts
VARIABLES
    options,          \* this.options: the configuration built by the constructor
    call,             \* the RequestOptions of the logical call
    callerAborted,    \* options.signal.aborted
    pc,               \* where request() is suspended
    maxRetries,       \* request(): const maxRetries
    attempt,          \* request(): the loop variable
    lastError,        \* request(): let lastError
    timer,            \* makeRequest(): the timeout timer of the current attempt
    sigAborted,       \* makeRequest(): signal.aborted of the signal given to fetch
    resp,             \* makeRequest(): the response whose body is being decoded
    delay,            \* the delay given to the last sleep()
    fetchCalls,       \* number of invocations of this.options.fetch
    sleeps,           \* number of invocations of sleep()
    result,           \* how the promise returned by request() settled
    prevOutcome,      \* what the physical attempt before the current one answered
    lastOutcome,      \* what the current physical attempt answered
    fetchAfterAbort,  \* fetch was invoked after the caller's signal had fired
    sleepAfterAbort   \* sleep was invoked after the caller's signal had fired

execVars == << options, call, callerAborted, pc, maxRetries, attempt, lastError, timer,
               sigAborted, resp, delay, fetchCalls, sleeps, result, prevOutcome,
               lastOutcome, fetchAfterAbort, sleepAfterAbort >>

VARIABLES
    hookPc,           \* "idle" before the verification call, "done" after it
    hookIn,           \* the arguments of the call and how the signature was made
    hookOut           \* what verify did and how it ended

hookVars == << hookPc, hookIn, hookOut >>

VARIABLES
    backoffIn,        \* the arguments of one call of calculateBackoff and its random draw
    backoffOut        \* the delay it returned

backoffVars == << backoffIn, backoffOut >>

VARIABLES
    ctorIn,           \* the PayCoinProOptions given to a constructor, and which one
    ctorOut           \* the instance it returned or the error it threw

ctorVars == << ctorIn, ctorOut >>

VARIABLES
    client,           \* this.options of the client the calls share
    calls,            \* per logical call: the locals of request() and makeRequest()
    console           \* the last line written by console.log

sessVars == << client, calls, console >>

VARIABLES
    urlIn,            \* the base endpoint, the path and the parameters of a call
    urlOut            \* the URL buildURL returned

urlVars == << urlIn, urlOut >>

VARIABLES
    rev2Client,       \* the second revision's client: the option given and this.maxRetries
    rev2Call          \* the locals of its request() and makeRequest()

rev2Vars == << rev2Client, rev2Call >>

VARIABLES
    headersIn,        \* the headers container given to getSignatureFromHeaders
    signatureOut      \* the value it returned

lookupVars == << headersIn, signatureOut >>

VARIABLES
    compare           \* one activation of secureCompare: its arguments and locals

compareVars == << compare >>

\* What the steps of one component leave alone.
besidesExec == << hookVars, backoffVars, ctorVars, sessVars, urlVars, rev2Vars, lookupVars, compareVars >>
besidesHooks == << execVars, backoffVars, ctorVars, sessVars, urlVars, rev2Vars, lookupVars, compareVars >>
besidesBackoff == << execVars, hookVars, ctorVars, sessVars, urlVars, rev2Vars, lookupVars, compareVars >>
besidesCtor == << execVars, hookVars, backoffVars, sessVars, urlVars, rev2Vars, lookupVars, compareVars >>
besidesSess == << execVars, hookVars, backoffVars, ctorVars, urlVars, rev2Vars, lookupVars, compareVars >>
besidesURL == << execVars, hookVars, backoffVars, ctorVars, sessVars, rev2Vars, lookupVars, compareVars >>
besidesRev2 == << execVars, hookVars, backoffVars, ctorVars, sessVars, urlVars, lookupVars, compareVars >>
besidesLookup == << execVars, hookVars, backoffVars, ctorVars, sessVars, urlVars, rev2Vars, compareVars >>
besidesCompare == << execVars, hookVars, backoffVars, ctorVars, sessVars, urlVars, rev2Vars, lookupVars >>

Budgets == (0 - 1) .. MaxBudget
\* The draws of Math.random() the model takes: the least and the largest.
JitterDraws == {0, JitterDen - 1}
SignalStates == {"none", "live", "aborted"}
NoCall == [maxRetries |-> Undef, signal |-> "none"]
NoResp == [status |-> 0, hdr |-> Undef]
NoOutcome == [t |-> "none", status |-> 0, body |-> "", attempt |-> 0 - 1]
Pending == [state |-> "pending", value |-> Undef, err |-> Undef]

\* The constructor: maxRetries: options.maxRetries ?? DEFAULT_MAX_RETRIES.
APIClient(ctorMaxRetries) == [maxRetries |-> Nullish(ctorMaxRetries, DEFAULT_MAX_RETRIES)]

InitExec ==
    /\ options \in {APIClient(m) : m \in {Undef} \cup {Some(b) : b \in Budgets}}
    /\ call = NoCall
    /\ callerAborted = FALSE
    /\ pc = "idle"
    /\ maxRetries = 0
    /\ attempt = 0
    /\ lastError = Undef
    /\ timer = "none"
    /\ sigAborted = FALSE
    /\ resp = NoResp
    /\ delay = 0
    /\ fetchCalls = 0
    /\ sleeps = 0
    /\ result = Pending
    /\ prevOutcome = NoOutcome
    /\ lastOutcome = NoOutcome
    /\ fetchAfterAbort = FALSE
    /\ sleepAfterAbort = FALSE

\* options?.maxRetries || this.options.maxRetries: a per-call 0 is lost.
EffectiveMaxRetriesOr(callMax, cfgMax) ==
    IF callMax = Undef \/ callMax[1] = 0 THEN cfgMax ELSE callMax[1]

\* request(): options?.maxRetries ?? this.options.maxRetries
EffectiveMaxRetries(callMax, cfgMax) == Nullish(callMax, cfgMax)

\* The 4xx test without its upper bound: every status from 400 up is terminal.
IsTerminalNoUpperBound(e) == IsAPIError(e) /\ e.status >= 400 /\ e.status # 429

\* request(): the 4xx test of the catch branch
IsTerminal(e) == IsAPIError(e) /\ e.status >= 400 /\ e.status < 500 /\ e.status # 429

\* A calculateBackoff whose exponential branch lacks Math.min(.., maxDelay).
calculateBackoffUncapped(att, e, j) ==
    IF IsAPIError(e) /\ e.ra.def /\ ~e.ra.nan /\ e.ra.v # 0
    THEN Min(e.ra.v * 1000, maxDelay)
    ELSE LET exponentialDelay == baseDelay * Pow2(att)
             jitter == (j * 3 * exponentialDelay) \div (10 * JitterDen)
         IN  exponentialDelay + jitter

\* calculateBackoff(attempt, error), with Math.random() = j / JitterDen
calculateBackoff(att, e, j) ==
    IF IsAPIError(e) /\ e.ra.def /\ ~e.ra.nan /\ e.ra.v # 0
    THEN Min(e.ra.v * 1000, maxDelay)
    ELSE LET exponentialDelay == baseDelay * Pow2(att)
             jitter == (j * 3 * exponentialDelay) \div (10 * JitterDen)
         IN  Min(exponentialDelay + jitter, maxDelay)

\* makeRequest(): the catch branch, for a value that is no APIError
Classify(t, att) ==
    IF t.isError /\ t.name = "AbortError"
    THEN Err("TimeoutError", 0, NoRetryAfter, att, "")
    ELSE IF t.isError /\ (MsgIncludes(t.msg, "fetch") \/ MsgIncludes(t.msg, "network"))
    THEN Err("ConnectionError", 0, NoRetryAfter, att, "")
    ELSE Err(IF t.isError THEN t.name ELSE "NonError", 0, NoRetryAfter, att, "")

\* A return that hands back the decoded body without unwrapping data.
PayloadWrapped(body, att) ==
    [from |-> att, v |-> IF body = "nojson" THEN "undefined" ELSE "body"]

\* makeRequest(): the value returned for a decoded body
Payload(body, att) ==
    [from |-> att, v |-> IF body = "data" THEN "data.data"
                         ELSE IF body = "nojson" THEN "undefined" ELSE "body"]

Reject(e) ==
    /\ result' = [state |-> "rejected", value |-> Undef, err |-> Some(e)]
    /\ pc' = "done"

Resolve(p) ==
    /\ result' = [state |-> "resolved", value |-> Some(p), err |-> Undef]
    /\ pc' = "done"

\* A combineSignals that only listens: a caller signal that has fired before
\* the attempt leaves the derived signal live.
BeginAttemptListenOnly(aborted, hasSignal) ==
    /\ timer' = "pending"
    /\ sigAborted' = FALSE
    /\ fetchCalls' = fetchCalls + 1
    /\ fetchAfterAbort' = (fetchAfterAbort \/ aborted)
    /\ resp' = NoResp
    /\ pc' = "fetching"

\* makeRequest() up to the await of fetch: the timer, the signal, the call.
BeginAttempt(aborted, hasSignal) ==
    /\ timer' = "pending"
    /\ sigAborted' = (hasSignal /\ aborted)
    /\ fetchCalls' = fetchCalls + 1
    /\ fetchAfterAbort' = (fetchAfterAbort \/ aborted)
    /\ resp' = NoResp
    /\ pc' = "fetching"

\* The catch branch throwing the error it had kept before this attempt's.
HandleErrorStale(e) ==
    /\ lastError' = Some(e)
    /\ IF IsTerminal(e) \/ attempt >= maxRetries
       THEN /\ Reject(IF lastError = Undef THEN e ELSE lastError[1])
            /\ UNCHANGED << delay, sleeps, sleepAfterAbort >>
       ELSE /\ \E j \in JitterDraws : delay' = calculateBackoff(attempt, e, j)
            /\ sleeps' = sleeps + 1
            /\ sleepAfterAbort' = (sleepAfterAbort \/ callerAborted)
            /\ pc' = "sleeping"
            /\ UNCHANGED result

\* request(): the catch branch
HandleError(e) ==
    /\ lastError' = Some(e)
    /\ IF IsTerminal(e) \/ attempt >= maxRetries
       THEN /\ Reject(e)
            /\ UNCHANGED << delay, sleeps, sleepAfterAbort >>
       ELSE /\ \E j \in JitterDraws : delay' = calculateBackoff(attempt, e, j)
            /\ sleeps' = sleeps + 1
            /\ sleepAfterAbort' = (sleepAfterAbort \/ callerAborted)
            /\ pc' = "sleeping"
            /\ UNCHANGED result

Outcome(o) ==
    /\ lastOutcome' = o
    /\ UNCHANGED prevOutcome

\* makeRequest() after the body is known: throw fromResponse or return the data.
Settle(status, hdr, body) ==
    /\ Outcome([t |-> "response", status |-> status, body |-> body, attempt |-> attempt])
    /\ IF ~ResponseOk(status)
       THEN HandleError(fromResponse(status, hdr,
                                     IF body = "errobj" THEN ErrorBody ELSE NoErrorBody,
                                     attempt))
       ELSE /\ Resolve(Payload(body, attempt))
            /\ UNCHANGED << lastError, delay, sleeps, sleepAfterAbort >>

\* A logical call: get/post/... -> request() -> the first makeRequest().
StartCall(Signals) ==
    /\ pc = "idle"
    /\ \E m \in {Undef} \cup {Some(b) : b \in Budgets}, sig \in Signals :
         LET mr == EffectiveMaxRetries(m, options.maxRetries) IN
         /\ call' = [maxRetries |-> m, signal |-> sig]
         /\ callerAborted' = (sig = "aborted")
         /\ maxRetries' = mr
         /\ attempt' = 0
         /\ IF 0 <= mr
            THEN /\ BeginAttempt(sig = "aborted", sig # "none")
                 /\ UNCHANGED << result, lastError >>
            ELSE /\ Reject(Err("Error", 0, NoRetryAfter, 0 - 1, ""))
                 /\ UNCHANGED << lastError, timer, sigAborted, resp, fetchCalls,
                                 fetchAfterAbort >>
    /\ UNCHANGED << options, delay, sleeps, prevOutcome, lastOutcome, sleepAfterAbort >>
    /\ UNCHANGED besidesExec

\* The caller fires its AbortController while the call is under way.
CallerAborts ==
    /\ pc \in {"fetching", "reading", "sleeping"}
    /\ call.signal = "live"
    /\ ~callerAborted
    /\ callerAborted' = TRUE
    /\ sigAborted' = (sigAborted \/ pc \in {"fetching", "reading"})
    /\ UNCHANGED << options, call, pc, maxRetries, attempt, lastError, timer, resp, delay,
                    fetchCalls, sleeps, result, prevOutcome, lastOutcome,
                    fetchAfterAbort, sleepAfterAbort >>
    /\ UNCHANGED besidesExec

\* setTimeout(() => controller.abort(), timeout) fires.
TimeoutFires ==
    /\ pc = "fetching"
    /\ timer = "pending"
    /\ timer' = "fired"
    /\ sigAborted' = TRUE
    /\ UNCHANGED << options, call, callerAborted, pc, maxRetries, attempt, lastError, resp,
                    delay, fetchCalls, sleeps, result, prevOutcome, lastOutcome,
                    fetchAfterAbort, sleepAfterAbort >>
    /\ UNCHANGED besidesExec

\* A makeRequest that leaves its timer armed.
ClearTimeoutLeft == timer' = timer

\* clearTimeout(timeoutId)
ClearTimeout == timer' = IF timer = "pending" THEN "cleared" ELSE timer

\* fetch rejects: makeRequest's catch classifies, request's catch decides.
FetchRejects ==
    /\ pc = "fetching"
    /\ \E t \in FetchRejections :
         /\ t = AbortErr => sigAborted
         /\ Outcome([t |-> "rejected", status |-> 0, body |-> t.name, attempt |-> attempt])
         /\ HandleError(Classify(t, attempt))
    /\ ClearTimeout
    /\ UNCHANGED << options, call, callerAborted, maxRetries, attempt, sigAborted, resp,
                    fetchCalls, fetchAfterAbort >>
    /\ UNCHANGED besidesExec

\* fetch resolves with a response; a JSON content type makes makeRequest await json().
FetchResolves(Answers) ==
    /\ pc = "fetching"
    /\ \E status \in Answers, hdr \in RetryAfterHeaders, json \in BOOLEAN :
         /\ hdr # Undef => status \in {429, 503}
         /\ IF json
            THEN /\ resp' = [status |-> status, hdr |-> hdr]
                 /\ pc' = "reading"
                 /\ Outcome([t |-> "response", status |-> status, body |-> "pending",
                             attempt |-> attempt])
                 /\ UNCHANGED << lastError, delay, sleeps, sleepAfterAbort, result >>
            ELSE /\ Settle(status, hdr, "nojson")
                 /\ UNCHANGED resp
    /\ ClearTimeout
    /\ UNCHANGED << options, call, callerAborted, maxRetries, attempt, sigAborted,
                    fetchCalls, fetchAfterAbort >>
    /\ UNCHANGED besidesExec

\* response.json() resolves with the decoded body.
BodyDecoded ==
    /\ pc = "reading"
    /\ \E body \in Bodies : Settle(resp.status, resp.hdr, body)
    /\ UNCHANGED << options, call, callerAborted, maxRetries, attempt, timer, sigAborted,
                    resp, fetchCalls, fetchAfterAbort >>
    /\ UNCHANGED besidesExec

\* response.json() rejects: the body is no JSON, or the read was aborted.
BodyRejects ==
    /\ pc = "reading"
    /\ \E t \in JsonRejections :
         /\ t = AbortErr => sigAborted
         /\ Outcome([t |-> "response", status |-> resp.status, body |-> t.name,
                     attempt |-> attempt])
         /\ HandleError(Classify(t, attempt))
    /\ UNCHANGED << options, call, callerAborted, maxRetries, attempt, timer, sigAborted,
                    resp, fetchCalls, fetchAfterAbort >>
    /\ UNCHANGED besidesExec

\* A loop that goes on to the next attempt while the body of the current
\* response is still being read.
SleepElapsesEarly ==
    /\ pc \in {"sleeping", "reading"}
    /\ attempt < maxRetries
    /\ attempt' = attempt + 1
    /\ BeginAttempt(callerAborted, call.signal # "none")
    /\ prevOutcome' = lastOutcome
    /\ lastOutcome' = NoOutcome
    /\ UNCHANGED << options, call, callerAborted, maxRetries, lastError, delay, sleeps,
                    result, sleepAfterAbort >>
    /\ UNCHANGED besidesExec

\* A sleep whose promise is never resolved: the loop stays suspended.
SleepNeverResolves ==
    /\ pc = "sleeping"
    /\ UNCHANGED execVars
    /\ UNCHANGED besidesExec

\* The sleep timer fires: attempt++ and the next makeRequest().
SleepElapses ==
    /\ pc = "sleeping"
    /\ attempt' = attempt + 1
    /\ BeginAttempt(callerAborted, call.signal # "none")
    /\ prevOutcome' = lastOutcome
    /\ lastOutcome' = NoOutcome
    /\ UNCHANGED << options, call, callerAborted, maxRetries, lastError, delay, sleeps,
                    result, sleepAfterAbort >>
    /\ UNCHANGED besidesExec

\* ------------------------------------------------------ webhook verifiers
\* Three revisions of Webhooks.verify are in the repository:
\*   "timestamped"  resources/webhooks.ts: header t=<ts>,v1=<hex HMAC-SHA256>
\*   "hmac512"      lib/webhooks.ts: hex HMAC-SHA512, secret given per call
\*   "ctor"         lib/webhooks.ts: hex HMAC-SHA512, secret given at construction

CharCode(c) ==
    CASE c = " " -> 32 [] c = "," -> 44 [] c = "-" -> 45 [] c = "." -> 46
      [] c = "=" -> 61 [] c = "[" -> 91 [] c = "]" -> 93
      [] c = "A" -> 65 [] c = "B" -> 66 [] c = "C" -> 67 [] c = "D" -> 68
      [] c = "E" -> 69 [] c = "F" -> 70
      [] c = "a" -> 97 [] c = "b" -> 98 [] c = "c" -> 99 [] c = "d" -> 100
      [] c = "e" -> 101 [] c = "f" -> 102
      [] c = "k" -> 107 [] c = "s" -> 115 [] c = "t" -> 116 [] c = "v" -> 118
      [] c = "z" -> 122
      [] OTHER -> 48 + DigitVal(c)

HexLower == << "0", "1", "2", "3", "4", "5", "6", "7", "8", "9", "a", "b", "c", "d", "e", "f" >>

\* The value of a hexadecimal digit of either case, -1 for any other character.
HexVal(c) ==
    CASE c = "a" \/ c = "A" -> 10 [] c = "b" \/ c = "B" -> 11 [] c = "c" \/ c = "C" -> 12
      [] c = "d" \/ c = "D" -> 13 [] c = "e" \/ c = "E" -> 14 [] c = "f" \/ c = "F" -> 15
      [] OTHER -> DigitVal(c)

RECURSIVE BitXor(_, _)
BitXor(a, b) ==
    IF a = 0 THEN b ELSE IF b = 0 THEN a
    ELSE 2 * BitXor(a \div 2, b \div 2) + (((a % 2) + (b % 2)) % 2)

RECURSIVE BitOr(_, _)
BitOr(a, b) ==
    IF a = 0 THEN b ELSE IF b = 0 THEN a
    ELSE 2 * BitOr(a \div 2, b \div 2) + (IF (a % 2) + (b % 2) > 0 THEN 1 ELSE 0)

RECURSIVE Codes(_)
Codes(s) == IF s = << >> THEN << >> ELSE << CharCode(Head(s)) >> \o Codes(Tail(s))

RECURSIVE BytesHex(_)
BytesHex(bytes) ==
    IF bytes = << >> THEN << >>
    ELSE << HexLower[(Head(bytes) \div 16) + 1], HexLower[(Head(bytes) % 16) + 1] >>
         \o BytesHex(Tail(bytes))

\* String(n) for an integer
RECURSIVE NatDigits(_)
NatDigits(n) ==
    IF n < 10 THEN << HexLower[n + 1] >> ELSE NatDigits(n \div 10) \o << HexLower[(n % 10) + 1] >>
ToDigits(n) == IF n < 0 THEN << "-" >> \o NatDigits(0 - n) ELSE NatDigits(n)

\* Payload strings and the JSON they may hold: numbers written with the
\* digit 1, arrays of at most one element, blanks around any value.
PayloadChars == {"1", "[", "]", " "}
Payloads == UNION {[1 .. n -> PayloadChars] : n \in 0 .. MaxPayloadLen}

Num(n) == [t |-> "num", n |-> n, e |-> << >>]
Arr(e) == [t |-> "arr", n |-> 0, e |-> e]
NoValue == [t |-> "undefined", n |-> 0, e |-> << >>]
Objects == {Arr(<< >>), Arr(<< Num(1) >>)}

RECURSIVE Trim(_)
Trim(s) ==
    IF s = << >> THEN s
    ELSE IF Head(s) = " " THEN Trim(Tail(s))
    ELSE IF s[Len(s)] = " " THEN Trim(SubSeq(s, 1, Len(s) - 1))
    ELSE s

\* JSON.parse(s): ok is FALSE where JSON.parse throws a SyntaxError.
RECURSIVE JSONParse(_)
JSONParse(s) ==
    LET t == Trim(s) IN
    IF t # << >> /\ \A i \in 1 .. Len(t) : t[i] = "1"
    THEN [ok |-> TRUE, v |-> Num(ParseDigits(t, 1, 0))]
    ELSE IF Len(t) >= 2 /\ t[1] = "[" /\ t[Len(t)] = "]"
    THEN LET inner == Trim(SubSeq(t, 2, Len(t) - 1)) IN
         IF inner = << >> THEN [ok |-> TRUE, v |-> Arr(<< >>)]
         ELSE LET r == JSONParse(inner) IN
              IF r.ok THEN [ok |-> TRUE, v |-> Arr(<< r.v >>)]
              ELSE [ok |-> FALSE, v |-> NoValue]
    ELSE [ok |-> FALSE, v |-> NoValue]

\* JSON.stringify(v)
RECURSIVE JSONStringify(_)
JSONStringify(v) ==
    IF v.t = "num" THEN ToDigits(v.n)
    ELSE << "[" >> \o (IF v.e = << >> THEN << >> ELSE JSONStringify(v.e[1])) \o << "]" >>

\* createHmac(alg, key).update(msg).digest('hex'). HMAC is taken to be free
\* of collisions: the digest is a fixed-width lower-case hex string that
\* determines the algorithm, the key and the message.
DigestBytes(alg) == (IF alg = "sha256" THEN 1 ELSE 2) * (MaxPayloadLen + 8)
Hmac(alg, key, msg) ==
    LET bytes == << (IF alg = "sha256" THEN 1 ELSE 2) >> \o Codes(key) \o << 255 >> \o Codes(msg)
    IN  BytesHex(bytes \o [i \in 1 .. (DigestBytes(alg) - Len(bytes)) |-> 0])

\* Buffer.from(s, 'hex'): whole pairs of hex digits, up to the first pair
\* that holds another character; a trailing single digit is dropped.
RECURSIVE HexDecode(_, _)
HexDecode(s, i) ==
    IF i + 1 > Len(s) \/ HexVal(s[i]) < 0 \/ HexVal(s[i + 1]) < 0 THEN << >>
    ELSE << 16 * HexVal(s[i]) + HexVal(s[i + 1]) >> \o HexDecode(s, i + 2)

\* resources/webhooks.ts secureCompare(a, b)
secureCompareHex(a, b) ==
    LET bufA == HexDecode(a, 1)
        bufB == HexDecode(b, 1)
    IN  IF Len(bufA) # Len(bufB) THEN FALSE ELSE bufA = bufB

\* lib/webhooks.ts secureCompare(a, b): result |= a.charCodeAt(i) ^ b.charCodeAt(i)
RECURSIVE XorFold(_, _, _, _)
XorFold(a, b, i, acc) ==
    IF i > Len(a) THEN acc
    ELSE XorFold(a, b, i + 1, BitOr(acc, BitXor(CharCode(a[i]), CharCode(b[i]))))

\* The fold comparing a with itself: only the lengths are compared.
secureCompareSelf(a, b) ==
    IF Len(a) # Len(b) THEN FALSE ELSE XorFold(a, a, 1, 0) = 0

secureCompare(a, b) ==
    IF Len(a) # Len(b) THEN FALSE ELSE XorFold(a, b, 1, 0) = 0

\* s.split(sep)
RECURSIVE SplitFrom(_, _, _, _)
SplitFrom(s, sep, i, cur) ==
    IF i > Len(s) THEN << cur >>
    ELSE IF s[i] = sep THEN << cur >> \o SplitFrom(s, sep, i + 1, << >>)
    ELSE SplitFrom(s, sep, i + 1, Append(cur, s[i]))
Split(s, sep) == SplitFrom(s, sep, 1, << >>)

\* parseHeader(header): the loop over the parts, then the check of both values.
NaN == [def |-> TRUE, nan |-> TRUE, v |-> 0]
Number(n) == [def |-> TRUE, nan |-> FALSE, v |-> n]
FalsyNumber(x) == x.nan \/ x.v = 0
FalsyString(x) == x = Undef \/ x[1] = << >>

RECURSIVE ParseParts(_, _, _, _)
ParseParts(parts, i, timestamp, signature) ==
    IF i > Len(parts) THEN [timestamp |-> timestamp, signature |-> signature]
    ELSE LET kv == Split(parts[i], "=")
             key == kv[1]
             value == IF Len(kv) >= 2 THEN Some(kv[2]) ELSE Undef
         IN  IF key = << "t" >>
             THEN ParseParts(parts, i + 1,
                             IF value = Undef THEN NaN ELSE parseInt(value[1]), signature)
             ELSE IF key = << "v", "1" >>
             THEN ParseParts(parts, i + 1, timestamp, value)
             ELSE ParseParts(parts, i + 1, timestamp, signature)

\* A parseHeader that reads the timestamp one second late.
parseHeaderOneLate(header) ==
    LET r == ParseParts(Split(header, ","), 1, Number(0), Some(<< >>)) IN
    IF FalsyNumber(r.timestamp) \/ FalsyString(r.signature)
    THEN [ok |-> FALSE, timestamp |-> 0, signature |-> << >>]
    ELSE [ok |-> TRUE, timestamp |-> r.timestamp.v + 1, signature |-> r.signature[1]]

parseHeader(header) ==
    LET r == ParseParts(Split(header, ","), 1, Number(0), Some(<< >>)) IN
    IF FalsyNumber(r.timestamp) \/ FalsyString(r.signature)
    THEN [ok |-> FALSE, timestamp |-> 0, signature |-> << >>]
    ELSE [ok |-> TRUE, timestamp |-> r.timestamp.v, signature |-> r.signature[1]]

\* What one call of verify did: the steps it took in order, what
\* secureCompare returned if it ran, and how the call ended.
Thrown(kind, msg, steps, cmp) ==
    [outcome |-> "error", kind |-> kind, msg |-> msg, event |-> NoValue,
     steps |-> steps, cmp |-> cmp]
Returned(event, steps) ==
    [outcome |-> "event", kind |-> "", msg |-> "", event |-> event,
     steps |-> steps, cmp |-> "true"]

StringPayload(s) == [isString |-> TRUE, s |-> s, v |-> NoValue]
ObjectPayload(v) == [isString |-> FALSE, s |-> << >>, v |-> v]

\* resources/webhooks.ts verify(rawBody, signatureHeader, secret, toleranceSeconds)
verifyTimestamped(rawBody, signatureHeader, secret, toleranceSeconds, now) ==
    IF FalsyString(signatureHeader)
    THEN Thrown("WebhookVerificationError", "Missing webhook signature header", << >>, "none")
    ELSE IF secret = << >>
    THEN Thrown("WebhookVerificationError", "Missing webhook secret", << >>, "none")
    ELSE IF ~rawBody.isString
    THEN Thrown("WebhookVerificationError", "Raw body must be a string", << >>, "none")
    ELSE LET h == parseHeader(signatureHeader[1]) IN
    IF ~h.ok
    THEN Thrown("WebhookVerificationError", "Invalid signature header format",
                << "parseHeader" >>, "none")
    ELSE LET tolerance == Nullish(toleranceSeconds, defaultTolerance)
             age == now - h.timestamp
         IN
    IF age > tolerance
    THEN Thrown("WebhookVerificationError", "Webhook timestamp too old",
                << "parseHeader" >>, "none")
    ELSE IF age < 0 - tolerance
    THEN Thrown("WebhookVerificationError", "Webhook timestamp is in the future",
                << "parseHeader" >>, "none")
    ELSE LET signedPayload == ToDigits(h.timestamp) \o << "." >> \o rawBody.s
             expected == Hmac("sha256", secret, signedPayload)
         IN
    IF ~secureCompareHex(h.signature, expected)
    THEN Thrown("WebhookVerificationError", "Invalid webhook signature",
                << "parseHeader", "createHmac", "secureCompare" >>, "false")
    ELSE LET parsed == JSONParse(rawBody.s) IN
    IF parsed.ok
    THEN Returned(parsed.v, << "parseHeader", "createHmac", "secureCompare", "JSON.parse" >>)
    ELSE Thrown("WebhookVerificationError", "Invalid JSON in webhook body",
                << "parseHeader", "createHmac", "secureCompare", "JSON.parse" >>, "true")

\* lib/webhooks.ts generateSignature(payload, secret)
generateSignature(payload, secret) == Hmac("sha512", secret, payload)

\* A verifySignature whose guard returns true instead of false.
verifySignatureGuardInverted(payload, signature, secret) ==
    IF FalsyString(signature) \/ secret = << >>
    THEN [valid |-> TRUE, steps |-> << >>, cmp |-> "none"]
    ELSE LET ok == secureCompare(generateSignature(payload, secret), signature[1]) IN
         [valid |-> ok, steps |-> << "createHmac", "secureCompare" >>,
          cmp |-> IF ok THEN "true" ELSE "false"]

\* lib/webhooks.ts verifySignature(payload, signature, secret)
verifySignature(payload, signature, secret) ==
    IF FalsyString(signature) \/ secret = << >>
    THEN [valid |-> FALSE, steps |-> << >>, cmp |-> "none"]
    ELSE LET ok == secureCompare(generateSignature(payload, secret), signature[1]) IN
         [valid |-> ok, steps |-> << "createHmac", "secureCompare" >>,
          cmp |-> IF ok THEN "true" ELSE "false"]

\* lib/webhooks.ts verify(payload, signature, secret)
verifyHmac512(payload, signature, secret) ==
    LET pre == IF payload.isString THEN << >> ELSE << "JSON.stringify" >>
        payloadString == IF payload.isString THEN payload.s ELSE JSONStringify(payload.v)
        sig == verifySignature(payloadString, signature, secret)
    IN
    IF ~sig.valid
    THEN Thrown("WebhookSignatureError", "Invalid webhook signature", pre \o sig.steps, sig.cmp)
    ELSE IF ~payload.isString
    THEN [Returned(payload.v, pre \o sig.steps) EXCEPT !.cmp = sig.cmp]
    ELSE LET parsed == JSONParse(payload.s) IN
    IF parsed.ok
    THEN [Returned(parsed.v, pre \o sig.steps \o << "JSON.parse" >>) EXCEPT !.cmp = sig.cmp]
    ELSE Thrown("WebhookSignatureError", "Failed to parse webhook payload",
                pre \o sig.steps \o << "JSON.parse" >>, sig.cmp)

\* lib/webhooks.ts (secret held by the instance) verify(payload, signature)
verifyCtor(payload, signature, secret) ==
    IF FalsyString(signature)
    THEN Thrown("WebhookVerificationError", "Missing webhook signature", << >>, "none")
    ELSE LET pre == IF payload.isString THEN << >> ELSE << "JSON.stringify" >>
             payloadString == IF payload.isString THEN payload.s ELSE JSONStringify(payload.v)
             expected == Hmac("sha512", secret, payloadString)
             steps == pre \o << "createHmac", "secureCompare" >>
         IN
    IF ~secureCompare(signature[1], expected)
    THEN Thrown("WebhookVerificationError", "Invalid webhook signature", steps, "false")
    ELSE IF ~payload.isString
    THEN Returned(payload.v, steps)
    ELSE LET parsed == JSONParse(payload.s) IN
    IF parsed.ok
    THEN Returned(parsed.v, steps \o << "JSON.parse" >>)
    ELSE Thrown("SyntaxError", "Unexpected token in JSON", steps \o << "JSON.parse" >>, "true")

\* A sign that leaves the timestamp out of what it signs.
signTimestampedBodyOnly(payload, secret, timestamp, now) ==
    LET ts == Nullish(timestamp, now)
        body == JSONStringify(payload)
        signature == Hmac("sha256", secret, body)
    IN  << "t", "=" >> \o ToDigits(ts) \o << ",", "v", "1", "=" >> \o signature

\* resources/webhooks.ts sign(payload, secret, timestamp): the header value
signTimestamped(payload, secret, timestamp, now) ==
    LET ts == Nullish(timestamp, now)
        body == JSONStringify(payload)
        signedPayload == ToDigits(ts) \o << "." >> \o body
        signature == Hmac("sha256", secret, signedPayload)
    IN  << "t", "=" >> \o ToDigits(ts) \o << ",", "v", "1", "=" >> \o signature

\* lib/webhooks.ts (secret held by the instance) sign(payload)
signCtor(payload, secret) ==
    LET payloadString == IF payload.isString THEN payload.s ELSE JSONStringify(payload.v)
    IN  Hmac("sha512", secret, payloadString)

Secrets == {<< >>, << "k" >>, << "s" >>}
SigningKeys == Secrets \ {<< >>}

\* The strings of the same length that differ from s in exactly one place.
Differences(a, b) == Cardinality({i \in 1 .. Len(a) : a[i] # b[i]})
Mutations(s) ==
    {[s EXCEPT ![i] = c] : i \in 1 .. Len(s), c \in PayloadChars} \ {s}

\* A supplied signature is made from the digest of a signed text under a
\* key, either as it is or damaged in one of these ways.
Damages == {"exact", "upper", "plus_z", "plus_0", "plus_00", "minus_1", "minus_2",
            "flipped", "empty", "absent"}

UpperChar(c) ==
    CASE c = "a" -> "A" [] c = "b" -> "B" [] c = "c" -> "C" [] c = "d" -> "D"
      [] c = "e" -> "E" [] c = "f" -> "F" [] OTHER -> c

Damage(d, digest) ==
    CASE d = "exact" -> Some(digest)
      [] d = "upper" -> Some([i \in 1 .. Len(digest) |-> UpperChar(digest[i])])
      [] d = "plus_z" -> Some(digest \o << "z" >>)
      [] d = "plus_0" -> Some(digest \o << "0" >>)
      [] d = "plus_00" -> Some(digest \o << "0", "0" >>)
      [] d = "minus_1" -> Some(SubSeq(digest, 1, Len(digest) - 1))
      [] d = "minus_2" -> Some(SubSeq(digest, 1, Len(digest) - 2))
      [] d = "flipped" -> Some([digest EXCEPT ![2] = IF digest[2] = "1" THEN "2" ELSE "1"])
      [] d = "empty" -> Some(<< >>)
      [] OTHER -> Undef

\* Who signed what: the text and key the signature was computed for.
Signings(text, secret) ==
    {[text |-> text, key |-> k, damage |-> d] :
        k \in (IF secret = << >> THEN SigningKeys ELSE {secret}), d \in Damages}
    \cup {[text |-> m, key |-> secret, damage |-> "exact"] :
            m \in (IF secret = << >> THEN {} ELSE Mutations(text))}
    \cup {[text |-> text, key |-> k, damage |-> "exact"] : k \in SigningKeys \ {secret}}

PayloadText(payload) == IF payload.isString THEN payload.s ELSE JSONStringify(payload.v)
AllPayloads == {StringPayload(s) : s \in Payloads} \cup {ObjectPayload(v) : v \in Objects}

NoHookIn ==
    [variant |-> "", payload |-> StringPayload(<< >>), signature |-> Undef,
     secret |-> << >>, tolerance |-> Undef, timestamp |-> 0, header |-> Undef,
     signing |-> [text |-> << >>, key |-> << >>, damage |-> "absent"]]
NoHookOut == Thrown("", "", << >>, "none")

InitHook ==
    /\ hookPc = "idle"
    /\ hookIn = NoHookIn
    /\ hookOut = NoHookOut

\* The header a sender builds: t=<timestamp>,v1=<signature>
MkHeader(ts, signature) ==
    IF signature = Undef THEN Undef
    ELSE Some(<< "t", "=" >> \o ToDigits(ts) \o << ",", "v", "1", "=" >> \o signature[1])

Tolerances == {Undef, Some(SmallTolerance), Some(Now)}
Timestamps(tol) == {Now - tol - 1, Now - tol, Now, Now + tol, Now + tol + 1}

\* One call of the timestamped verify, Date.now() being Now seconds.
VerifyTimestamped ==
    /\ hookPc = "idle"
    /\ \E payload \in AllPayloads, secret \in Secrets, tol \in Tolerances :
       \E ts \in Timestamps(Nullish(tol, defaultTolerance)) :
       \E sg \in Signings(PayloadText(payload), secret) :
         LET signature == Damage(sg.damage,
                                 Hmac("sha256", sg.key, ToDigits(ts) \o << "." >> \o sg.text))
             header == MkHeader(ts, signature)
         IN  /\ hookIn' = [variant |-> "timestamped", payload |-> payload,
                           signature |-> signature, secret |-> secret, tolerance |-> tol,
                           timestamp |-> ts, header |-> header, signing |-> sg]
             /\ hookOut' = verifyTimestamped(payload, header, secret, tol, Now)
    /\ hookPc' = "done"
    /\ UNCHANGED besidesHooks

\* One call of a timestamped verify with a header that lacks one of its parts.
VerifyMalformedHeader ==
    /\ hookPc = "idle"
    /\ \E payload \in {StringPayload(s) : s \in Payloads}, secret \in SigningKeys :
       \E header \in {<< "t", "=" >> \o ToDigits(Now),
                      << "v", "1", "=" >> \o Hmac("sha256", secret, payload.s),
                      << "t", "=", "0", ",", "v", "1", "=" >> \o Hmac("sha256", secret, payload.s),
                      Hmac("sha256", secret, payload.s)} :
         /\ hookIn' = [NoHookIn EXCEPT !.variant = "timestamped", !.payload = payload,
                                       !.secret = secret, !.header = Some(header)]
         /\ hookOut' = verifyTimestamped(payload, Some(header), secret, Undef, Now)
    /\ hookPc' = "done"
    /\ UNCHANGED besidesHooks

\* One call of verify(payload, signature, secret) of the HMAC-SHA512 revision.
VerifyHmac512 ==
    /\ hookPc = "idle"
    /\ \E payload \in AllPayloads, secret \in Secrets :
       \E sg \in Signings(PayloadText(payload), secret) :
         LET signature == Damage(sg.damage, Hmac("sha512", sg.key, sg.text)) IN
         /\ hookIn' = [NoHookIn EXCEPT !.variant = "hmac512", !.payload = payload,
                                       !.signature = signature, !.secret = secret,
                                       !.signing = sg]
         /\ hookOut' = verifyHmac512(payload, signature, secret)
    /\ hookPc' = "done"
    /\ UNCHANGED besidesHooks

\* One call of verify(payload, signature) on new Webhooks(secret).
VerifyCtor ==
    /\ hookPc = "idle"
    /\ \E payload \in AllPayloads, secret \in Secrets :
       \E sg \in Signings(PayloadText(payload), secret) :
         LET signature == Damage(sg.damage, Hmac("sha512", sg.key, sg.text)) IN
         /\ hookIn' = [NoHookIn EXCEPT !.variant = "ctor", !.payload = payload,
                                       !.signature = signature, !.secret = secret,
                                       !.signing = sg]
         /\ hookOut' = verifyCtor(payload, signature, secret)
    /\ hookPc' = "done"
    /\ UNCHANGED besidesHooks

\* The value after v1= in a header sign built.
HeaderSignature(header) == Split(Split(header, ",")[2], "=")[2]

\* sign(payload, secret, timestamp) and then verify of the body the sender
\* serialized, with the header sign returned.
SignAndVerifyTimestamped ==
    /\ hookPc = "idle"
    /\ \E obj \in Objects, secret \in Secrets, tol \in Tolerances :
       \E tsArg \in {Undef} \cup {Some(t) : t \in Timestamps(Nullish(tol, defaultTolerance))} :
         LET header == signTimestamped(obj, secret, tsArg, Now)
             rawBody == StringPayload(JSONStringify(obj))
         IN  /\ hookIn' = [variant |-> "timestamped", payload |-> rawBody,
                           signature |-> Some(HeaderSignature(header)), secret |-> secret,
                           tolerance |-> tol, timestamp |-> Nullish(tsArg, Now),
                           header |-> Some(header),
                           signing |-> [text |-> rawBody.s, key |-> secret, damage |-> "signed"]]
             /\ hookOut' = verifyTimestamped(rawBody, Some(header), secret, tol, Now)
    /\ hookPc' = "done"
    /\ UNCHANGED besidesHooks

\* generateSignature(payload, secret) and then verify(payload, signature, secret).
SignAndVerifyHmac512 ==
    /\ hookPc = "idle"
    /\ \E payload \in AllPayloads, secret \in Secrets :
         LET signature == Some(generateSignature(PayloadText(payload), secret)) IN
         /\ hookIn' = [NoHookIn EXCEPT !.variant = "hmac512", !.payload = payload,
                                       !.signature = signature, !.secret = secret,
                                       !.signing = [text |-> PayloadText(payload),
                                                    key |-> secret, damage |-> "signed"]]
         /\ hookOut' = verifyHmac512(payload, signature, secret)
    /\ hookPc' = "done"
    /\ UNCHANGED besidesHooks

\* sign(payload) and then verify(payload, signature) on the same instance.
SignAndVerifyCtor ==
    /\ hookPc = "idle"
    /\ \E payload \in AllPayloads, secret \in Secrets :
         LET signature == Some(signCtor(payload, secret)) IN
         /\ hookIn' = [NoHookIn EXCEPT !.variant = "ctor", !.payload = payload,
                                       !.signature = signature, !.secret = secret,
                                       !.signing = [text |-> PayloadText(payload),
                                                    key |-> secret, damage |-> "signed"]]
         /\ hookOut' = verifyCtor(payload, signature, secret)
    /\ hookPc' = "done"
    /\ UNCHANGED besidesHooks

\* calculateBackoff on its own: every attempt index up to MaxAttemptIndex,
\* every kind of error request() hands it, every draw of Math.random().
NoBackoffIn == [attempt |-> 0 - 1, error |-> Err("", 0, NoRetryAfter, 0 - 1, ""), draw |-> 0]
\* The retry-after headers of the executor, a negative number and a text that
\* is no number.
BackoffHeaders == RetryAfterHeaders \cup {Some(<< "-", "5" >>), Some(<< "s", "o", "o", "n" >>)}
BackoffErrors(att) ==
    {fromResponse(st, h, NoErrorBody, att) : st \in {302, 429, 500, 503}, h \in BackoffHeaders}
    \cup {Classify(t, att) : t \in FetchRejections \cup JsonRejections}

InitBackoff ==
    /\ backoffIn = NoBackoffIn
    /\ backoffOut = 0

ComputeBackoff ==
    /\ backoffIn = NoBackoffIn
    /\ \E att \in 0 .. MaxAttemptIndex, j \in 0 .. (JitterDen - 1) :
       \E e \in BackoffErrors(att) :
         /\ backoffIn' = [attempt |-> att, error |-> e, draw |-> j]
         /\ backoffOut' = calculateBackoff(att, e, j)
    /\ UNCHANGED besidesBackoff

\* The values of options.apiKey: left out, empty, or a key.
ApiKeys == {Undef, Some(""), Some("pk_live"), Some("pk_test"), Some("k")}
PayCoinProOptions ==
    {[apiKey |-> k, maxRetries |-> m] : k \in ApiKeys, m \in {Undef} \cup {Some(b) : b \in Budgets}}

CtorThrown(msg) == [state |-> "thrown", msg |-> msg, options |-> Undef, apiKey |-> Undef, requests |-> 0]
Instance(opts, key) == [state |-> "instance", msg |-> "", options |-> Some(opts), apiKey |-> key,
                        requests |-> 0]

\* A constructor that lacks the test of the key.
NewAPIClientUnchecked(o) == Instance(APIClient(o.maxRetries), o.apiKey)

\* new APIClient(options): this.options is built, then !this.options.apiKey throws.
NewAPIClient(o) ==
    LET built == Instance(APIClient(o.maxRetries), o.apiKey) IN
    IF built.apiKey = Undef \/ built.apiKey = Some("")
    THEN CtorThrown("API key is required")
    ELSE built

\* new PayCoinPro(options): its first statement is new APIClient(options),
\* whose error leaves the constructor; the resources share that client.
NewPayCoinPro(o) == NewAPIClient(o)

NoCtorIn == [via |-> "", options |-> [apiKey |-> Undef, maxRetries |-> Undef]]
NoCtorOut == [state |-> "none", msg |-> "", options |-> Undef, apiKey |-> Undef, requests |-> 0]

InitCtor ==
    /\ ctorIn = NoCtorIn
    /\ ctorOut = NoCtorOut

ConstructAPIClient ==
    /\ ctorOut = NoCtorOut
    /\ \E o \in PayCoinProOptions :
         /\ ctorIn' = [via |-> "APIClient", options |-> o]
         /\ ctorOut' = NewAPIClient(o)
    /\ UNCHANGED besidesCtor

ConstructPayCoinPro ==
    /\ ctorOut = NoCtorOut
    /\ \E o \in PayCoinProOptions :
         /\ ctorIn' = [via |-> "PayCoinPro", options |-> o]
         /\ ctorOut' = NewPayCoinPro(o)
    /\ UNCHANGED besidesCtor

\* A physical request is issued through an instance: get/post/... on the
\* client, or a resource method of the facade, which holds the client.
IssueRequest ==
    /\ ctorOut.state = "instance"
    /\ ctorOut.requests < MaxRequests
    /\ ctorOut' = [ctorOut EXCEPT !.requests = @ + 1]
    /\ UNCHANGED ctorIn
    /\ UNCHANGED besidesCtor

\* --------------------------------- lib/api.ts: the calls that share a client
\* The logical calls issued through one APIClient. Each call has its own
\* activation of request() and makeRequest(); this.options and the console
\* are what the activations share.
CallIds == {1, 2}

NoHeaders == << >>
\* { ...a, ...b }
Spread(a, b) == b @@ a

\* options.defaultHeaders of the constructor and options.headers of a call.
DefaultHeaderChoices ==
    {Undef, Some("Authorization" :> "Basic cfg"),
     Some(("X-Trace" :> "cfg") @@ ("Idempotency-Key" :> "cfg-key"))}
CallHeaderChoices ==
    {Undef, Some("Authorization" :> "Bearer other"),
     Some(("X-Trace" :> "call") @@ ("Idempotency-Key" :> "hdr-key"))}
IdempotencyKeys == {Undef, Some(""), Some("idem-1")}

\* The constructor: this.options, for options that carry a key.
APIClientOptions(o) ==
    [apiKey |-> o.apiKey,
     maxRetries |-> Nullish(o.maxRetries, DEFAULT_MAX_RETRIES),
     debug |-> Nullish(o.debug, FALSE),
     defaultHeaders |-> Nullish(o.defaultHeaders, NoHeaders)]

\* One call at a time, under every header configuration.
SessionOptions ==
    {[apiKey |-> "pk_live", maxRetries |-> Undef, debug |-> d, defaultHeaders |-> h] :
        d \in {Undef, Some(TRUE)}, h \in DefaultHeaderChoices}
SessionCalls ==
    {[maxRetries |-> Undef, headers |-> h, idempotencyKey |-> k] :
        h \in CallHeaderChoices, k \in IdempotencyKeys}

\* Two calls in flight together, each with at most one retry.
ConcurrentOptions ==
    {[apiKey |-> "pk_live", maxRetries |-> Some(1), debug |-> d, defaultHeaders |-> Undef] :
        d \in {Undef, Some(TRUE)}}
ConcurrentCalls ==
    {[maxRetries |-> m, headers |-> Undef, idempotencyKey |-> Undef] : m \in {Undef, Some(0)}}

\* What the network answers one physical request: fetch rejects, or it
\* resolves with a response whose body is no JSON ("nojson"), decodes to one
\* of Bodies, or fails to decode.
Answer(t, status, hdr, body, err) ==
    [t |-> t, status |-> status, hdr |-> hdr, body |-> body, err |-> err]
NoAnswer == Answer("none", 0, Undef, "", AbortErr)
SessionAnswers ==
    {Answer("rejected", 0, Undef, "", FetchFailed),
     Answer("response", 200, Undef, "data", AbortErr),
     Answer("response", 200, Undef, "nojson", AbortErr),
     Answer("response", 404, Undef, "errobj", AbortErr),
     Answer("response", 503, Undef, "nojson", AbortErr),
     Answer("response", 429, Some(<<"1">>), "nojson", AbortErr),
     Answer("response", 429, Some(<<"0">>), "nojson", AbortErr),
     Answer("response", 429, Some(<<"4", "0">>), "errobj", AbortErr),
     Answer("bodyRejected", 200, Undef, "", JsonErr)}
\* contentType?.includes('application/json'): the body is awaited.
AwaitsBody(answer) ==
    answer.t = "bodyRejected" \/ (answer.t = "response" /\ answer.body # "nojson")

NoRequestOptions == [maxRetries |-> Undef, headers |-> Undef, idempotencyKey |-> Undef]
NoCallState ==
    [pc |-> "idle", opts |-> NoRequestOptions, maxRetries |-> 0, attempt |-> 0,
     lastError |-> Undef, resp |-> NoAnswer, sent |-> << >>, inputs |-> << >>,
     delays |-> << >>, result |-> Pending]
NoLine == [message |-> "", attempt |-> 0 - 1, status |-> 0]

IdleSession(cfg) ==
    /\ client = cfg
    /\ calls = [c \in CallIds |-> NoCallState]
    /\ console = NoLine

InitSess ==
    IdleSession(APIClientOptions([apiKey |-> "pk_live", maxRetries |-> Undef,
                                  debug |-> Undef, defaultHeaders |-> Undef]))

\* !options?.idempotencyKey: no key, or the empty string
FalsyIdempotencyKey(key) == key = Undef \/ key[1] = ""

\* Built-in headers that lack the credential.
BuiltInHeadersNoCredential(apiKey) ==
    ("Content-Type" :> "application/json")
    @@ ("User-Agent" :> "paycoinpro-node/1.0.0")

\* makeRequest(): the three headers every request starts from
BuiltInHeaders(apiKey) ==
    ("Content-Type" :> "application/json")
    @@ ("Authorization" :> ("Bearer " \o apiKey))
    @@ ("User-Agent" :> "paycoinpro-node/1.0.0")

\* A merge that writes the idempotency header before the per-call headers.
RequestHeadersKeyFirst(opts, reqOpts) ==
    LET headers == Spread(BuiltInHeaders(opts.apiKey), opts.defaultHeaders)
        keyed == IF ~FalsyIdempotencyKey(reqOpts.idempotencyKey)
                 THEN Spread(headers, "Idempotency-Key" :> reqOpts.idempotencyKey[1])
                 ELSE headers
    IN  Spread(keyed, Nullish(reqOpts.headers, NoHeaders))

\* A merge that writes the idempotency header without testing the key.
RequestHeadersUnguarded(opts, reqOpts) ==
    Spread(Spread(Spread(BuiltInHeaders(opts.apiKey), opts.defaultHeaders),
                  Nullish(reqOpts.headers, NoHeaders)),
           "Idempotency-Key" :> Nullish(reqOpts.idempotencyKey, "undefined"))

\* makeRequest(): the headers given to fetch
RequestHeaders(opts, reqOpts) ==
    LET headers == Spread(Spread(BuiltInHeaders(opts.apiKey), opts.defaultHeaders),
                          Nullish(reqOpts.headers, NoHeaders))
    IN  IF ~FalsyIdempotencyKey(reqOpts.idempotencyKey)
        THEN Spread(headers, "Idempotency-Key" :> reqOpts.idempotencyKey[1])
        ELSE headers

\* log(message, data): console.log only in debug mode
log(line) == console' = IF client.debug THEN line ELSE console

Threw(e) == [ok |-> FALSE, value |-> Undef, err |-> Some(e)]
Gave(p) == [ok |-> TRUE, value |-> Some(p), err |-> Undef]

\* makeRequest(): how the physical attempt att ends on an answer
makeRequest(answer, att) ==
    CASE answer.t \in {"rejected", "bodyRejected"} -> Threw(Classify(answer.err, att))
      [] answer.t = "response" /\ ~ResponseOk(answer.status) ->
            Threw(fromResponse(answer.status, answer.hdr,
                               IF answer.body = "errobj" THEN ErrorBody ELSE NoErrorBody,
                               att))
      [] OTHER -> Gave(Payload(answer.body, att))

\* An attempt whose debug trace uses up a retry.
FetchingDebugCounts(cs) ==
    [cs EXCEPT !.pc = "fetching",
               !.resp = NoAnswer,
               !.attempt = IF client.debug THEN @ + 1 ELSE @,
               !.sent = Append(@, RequestHeaders(client, cs.opts))]

\* makeRequest() up to the await of fetch, for the call cs
Fetching(cs) ==
    [cs EXCEPT !.pc = "fetching",
               !.resp = NoAnswer,
               !.sent = Append(@, RequestHeaders(client, cs.opts))]

\* request(): what the loop does with the end of the current attempt; the
\* draw of Math.random() is taken only when calculateBackoff is called.
Decide(cs, answer, j) ==
    LET out == makeRequest(answer, cs.attempt)
        retries == ~out.ok /\ ~IsTerminal(out.err[1]) /\ cs.attempt < cs.maxRetries
        seen == [cs EXCEPT !.inputs = Append(@, [answer |-> answer,
                                                 draw |-> IF retries THEN j ELSE 0])]
    IN  IF out.ok
        THEN [seen EXCEPT !.pc = "done",
                          !.result = [state |-> "resolved", value |-> out.value, err |-> Undef]]
        ELSE IF IsTerminal(out.err[1]) \/ cs.attempt >= cs.maxRetries
        THEN [seen EXCEPT !.pc = "done",
                          !.lastError = out.err,
                          !.result = [state |-> "rejected", value |-> Undef, err |-> out.err]]
        ELSE [seen EXCEPT !.pc = "sleeping",
                          !.lastError = out.err,
                          !.delays = Append(@, calculateBackoff(cs.attempt, out.err[1], j))]

\* get/post/...: request() and its first makeRequest()
CallRequest(Cs, Opts) ==
    /\ \E c \in Cs, reqOpts \in Opts :
         /\ calls[c].pc = "idle"
         /\ calls' = [calls EXCEPT ![c] =
                         Fetching([calls[c] EXCEPT
                                     !.opts = reqOpts,
                                     !.maxRetries = EffectiveMaxRetries(reqOpts.maxRetries,
                                                                        client.maxRetries),
                                     !.attempt = 0])]
         /\ log([message |-> "request", attempt |-> 0, status |-> 0])
    /\ UNCHANGED client
    /\ UNCHANGED besidesSess

\* fetch settles: a rejection or a bodiless response ends the attempt, a JSON
\* response makes makeRequest await response.json()
CallFetchSettles(Cs) ==
    /\ \E c \in Cs, answer \in SessionAnswers, j \in JitterDraws :
         /\ calls[c].pc = "fetching"
         /\ calls' = [calls EXCEPT ![c] =
                         IF AwaitsBody(answer)
                         THEN [calls[c] EXCEPT !.pc = "reading", !.resp = answer]
                         ELSE Decide(calls[c], answer, j)]
         /\ IF answer.t = "rejected"
            THEN UNCHANGED console
            ELSE log([message |-> "Response", attempt |-> 0 - 1, status |-> answer.status])
    /\ UNCHANGED client
    /\ UNCHANGED besidesSess

\* response.json() settles
CallBodySettles(Cs) ==
    /\ \E c \in Cs, j \in JitterDraws :
         /\ calls[c].pc = "reading"
         /\ calls' = [calls EXCEPT ![c] = Decide(calls[c], calls[c].resp, j)]
    /\ UNCHANGED << client, console >>
    /\ UNCHANGED besidesSess

\* A loop whose attempt counter is one field of the client, shared by the
\* calls in flight.
CallSleepElapsesSharedCounter(Cs) ==
    /\ \E c \in Cs :
         /\ calls[c].pc = "sleeping"
         /\ calls' = [d \in CallIds |->
                         IF d = c THEN Fetching([calls[c] EXCEPT !.attempt = @ + 1])
                         ELSE [calls[d] EXCEPT !.attempt = @ + 1]]
         /\ log([message |-> "request", attempt |-> calls[c].attempt + 1, status |-> 0])
    /\ UNCHANGED client
    /\ UNCHANGED besidesSess

\* The sleep timer of a call fires: attempt++ and the next makeRequest().
CallSleepElapses(Cs) ==
    /\ \E c \in Cs :
         /\ calls[c].pc = "sleeping"
         /\ calls' = [calls EXCEPT ![c] = Fetching([calls[c] EXCEPT !.attempt = @ + 1])]
         /\ log([message |-> "request", attempt |-> calls[c].attempt + 1, status |-> 0])
    /\ UNCHANGED client
    /\ UNCHANGED besidesSess

\* ---------------------------------------------------- lib/api.ts: buildURL
\* URL strings are sequences of pieces: the origin, "/" and the path names.
Origin == "https://paycoinpro.com"
DEFAULT_BASE_URL == << Origin, "/", "api", "/", "v1" >>
BaseURLs == {<< Origin >>, << Origin, "/" >>, DEFAULT_BASE_URL, DEFAULT_BASE_URL \o << "/" >>}
CallPaths == {<< "invoices" >>, << "/", "invoices" >>,
              << "invoices", "/", "inv_1" >>, << "/", "invoices", "/", "inv_1" >>}

\* The values of a parameter map.
Undefined == [kind |-> "undefined", s |-> "", n |-> 0, items |-> << >>]
Null == [kind |-> "null", s |-> "", n |-> 0, items |-> << >>]
StringValue(s) == [kind |-> "string", s |-> s, n |-> 0, items |-> << >>]
NumberValue(n) == [kind |-> "number", s |-> "", n |-> n, items |-> << >>]
DateValue(ms) == [kind |-> "date", s |-> "", n |-> ms, items |-> << >>]
ListValue(items) == [kind |-> "list", s |-> "", n |-> 0, items |-> items]
ParamValues ==
    {Undefined, Null, StringValue("completed"), NumberValue(10), DateValue(5),
     ListValue(<< >>), ListValue(<< StringValue("a"), StringValue("b") >>),
     ListValue(<< StringValue("b"), NumberValue(1) >>)}
ParamKeys == {"limit", "tags"}
\* Object.entries(params): the keys of a map are distinct.
Param(key, value) == [key |-> key, value |-> value]
ParamMaps ==
    {Undef, Some(<< >>)}
    \cup {Some(<< Param(k, v) >>) : k \in ParamKeys, v \in ParamValues}
    \cup {Some(<< Param(k[1], v), Param(k[2], w) >>) :
             k \in {<< "limit", "tags" >>, << "tags", "limit" >>},
             v \in ParamValues, w \in ParamValues}

\* The path of a parsed URL: its segments, the last one empty after a
\* trailing slash; an origin alone has the path "/".
UrlPath(s) == IF Len(s) = 1 THEN << << >> >> ELSE Tail(Split(Tail(s), "/"))

RECURSIVE SerializePath(_)
SerializePath(segments) ==
    IF segments = << >> THEN << >>
    ELSE << "/" >> \o Head(segments) \o SerializePath(Tail(segments))

\* new URL(path, base): a path that begins with "/" replaces the path of the
\* base, any other path replaces the last segment of the base's path.
NewURL(path, base) ==
    LET basePath == UrlPath(base) IN
    [origin |-> base[1],
     path |-> IF path # << >> /\ path[1] = "/"
              THEN Tail(Split(path, "/"))
              ELSE SubSeq(basePath, 1, Len(basePath) - 1) \o Split(path, "/"),
     searchParams |-> << >>]

\* new URL(href), for an absolute href
ParseURL(href) == [origin |-> href[1], path |-> UrlPath(href), searchParams |-> << >>]

\* String(value)
String(value) ==
    CASE value.kind = "string" -> << value.s >>
      [] value.kind = "number" -> ToDigits(value.n)
      [] value.kind = "null" -> << "null" >>
      [] OTHER -> << "undefined" >>

\* String(array): the elements joined by ","
RECURSIVE JoinValues(_)
JoinValues(items) ==
    IF items = << >> THEN << >>
    ELSE IF Len(items) = 1 THEN String(Head(items))
    ELSE String(Head(items)) \o << "," >> \o JoinValues(Tail(items))

\* Date.prototype.toISOString(), for the first second of the epoch
toISOString(ms) ==
    << "1970-01-01T00:00:00." >>
    \o (IF ms < 10 THEN << "0", "0" >> ELSE IF ms < 100 THEN << "0" >> ELSE << >>)
    \o NatDigits(ms) \o << "Z" >>

\* url.searchParams.set(key, value): the first entry of that key is
\* replaced and the others removed, or the entry is appended.
SetParam(entries, key, value) ==
    IF \A i \in 1 .. Len(entries) : entries[i].key # key
    THEN Append(entries, Param(key, value))
    ELSE LET first == CHOOSE i \in 1 .. Len(entries) :
                          /\ entries[i].key = key
                          /\ \A k \in 1 .. (i - 1) : entries[k].key # key
             IsOther(e) == e.key # key
         IN  SubSeq(entries, 1, first - 1) \o << Param(key, value) >>
             \o SelectSeq(SubSeq(entries, first + 1, Len(entries)), IsOther)

\* for (const item of value) url.searchParams.append(key, String(item))
RECURSIVE AppendItems(_, _, _)
AppendItems(entries, key, items) ==
    IF items = << >> THEN entries
    ELSE AppendItems(Append(entries, Param(key, String(Head(items)))), key, Tail(items))

\* A loop body that sets the key for each element of a list.
AddParamSetItems(entries, key, value) ==
    IF value.kind \in {"undefined", "null"} THEN entries
    ELSE IF value.kind = "date" THEN SetParam(entries, key, toISOString(value.n))
    ELSE IF value.kind = "list"
    THEN IF value.items = << >> THEN entries
         ELSE SetParam(entries, key, String(value.items[Len(value.items)]))
    ELSE SetParam(entries, key, String(value))

\* buildURL(): the body of the loop over Object.entries(params)
AddParam(entries, key, value) ==
    IF value.kind \in {"undefined", "null"} THEN entries
    ELSE IF value.kind = "date" THEN SetParam(entries, key, toISOString(value.n))
    ELSE IF value.kind = "list" THEN AppendItems(entries, key, value.items)
    ELSE SetParam(entries, key, String(value))

RECURSIVE AddParams(_, _)
AddParams(entries, params) ==
    IF params = << >> THEN entries
    ELSE AddParams(AddParam(entries, Head(params).key, Head(params).value), Tail(params))

\* url.toString(): the address up to the query, and the query's entries
toString(url) == [href |-> << url.origin >> \o SerializePath(url.path),
                  search |-> url.searchParams]

\* buildURL(path, params), the revision that resolves path against baseURL
buildURL(baseURL, path, params) ==
    LET url == NewURL(path, baseURL) IN
    toString([url EXCEPT !.searchParams =
                 IF params = Undef THEN << >> ELSE AddParams(<< >>, params[1])])

\* The loop body of the revision that concatenates: a list is one value.
AddParamConcat(entries, key, value) ==
    IF value.kind \in {"undefined", "null"} THEN entries
    ELSE IF value.kind = "date" THEN SetParam(entries, key, toISOString(value.n))
    ELSE IF value.kind = "list" THEN SetParam(entries, key, JoinValues(value.items))
    ELSE SetParam(entries, key, String(value))

RECURSIVE AddParamsConcat(_, _)
AddParamsConcat(entries, params) ==
    IF params = << >> THEN entries
    ELSE AddParamsConcat(AddParamConcat(entries, Head(params).key, Head(params).value),
                         Tail(params))

\* buildURL(path, params), the revision that concatenates base and path
buildURLConcat(baseURL, path, params) ==
    LET base == IF baseURL[Len(baseURL)] = "/" THEN SubSeq(baseURL, 1, Len(baseURL) - 1)
                ELSE baseURL
        cleanPath == IF path # << >> /\ path[1] = "/" THEN Tail(path) ELSE path
        url == ParseURL(base \o << "/" >> \o cleanPath)
    IN  toString([url EXCEPT !.searchParams =
                     IF params = Undef THEN << >> ELSE AddParamsConcat(<< >>, params[1])])

NoUrlIn == [revision |-> "", baseURL |-> << >>, path |-> << >>, params |-> Undef]
NoUrlOut == [href |-> << >>, search |-> << >>]

InitURL ==
    /\ urlIn = NoUrlIn
    /\ urlOut = NoUrlOut

BuildURL ==
    /\ urlIn = NoUrlIn
    /\ \E b \in BaseURLs, p \in CallPaths, q \in ParamMaps :
         /\ urlIn' = [revision |-> "resolve", baseURL |-> b, path |-> p, params |-> q]
         /\ urlOut' = buildURL(b, p, q)
    /\ UNCHANGED besidesURL

BuildURLConcat ==
    /\ urlIn = NoUrlIn
    /\ \E b \in BaseURLs, p \in CallPaths, q \in ParamMaps :
         /\ urlIn' = [revision |-> "concat", baseURL |-> b, path |-> p, params |-> q]
         /\ urlOut' = buildURLConcat(b, p, q)
    /\ UNCHANGED besidesURL

\* ------------------------------- lib/webhooks.ts: getSignatureFromHeaders
\* A header name is the sequence of its words, joined by "-" in the text.
SIGNATURE_HEADER == << "x", "payload", "hash" >>

toLowerCaseWord(w) ==
    CASE w = "X" -> "x"
      [] w \in {"Payload", "PAYLOAD"} -> "payload"
      [] w \in {"Hash", "HASH"} -> "hash"
      [] w \in {"Content", "CONTENT"} -> "content"
      [] w \in {"Type", "TYPE"} -> "type"
      [] OTHER -> w
\* String.prototype.toLowerCase
toLowerCase(name) == [i \in 1 .. Len(name) |-> toLowerCaseWord(name[i])]

\* The containers: a Headers object, a Map, a plain object; each is given by
\* the entries it was filled with, under the names the filler used.
Header(name, value) == [name |-> name, value |-> value]
Container(kind, entries) == [kind |-> kind, entries |-> entries]

RECURSIVE Lookup(_, _, _)
\* The value stored under exactly this key, undefined when there is none.
Lookup(entries, key, i) ==
    IF i > Len(entries) THEN Undefined
    ELSE IF entries[i].name = key THEN entries[i].value
    ELSE Lookup(entries, key, i + 1)

\* Headers.prototype.get: names are lower-cased when stored and when asked
\* for; null when there is none.
HeadersGet(entries, name) ==
    LET stored == [i \in 1 .. Len(entries) |->
                      Header(toLowerCase(entries[i].name), entries[i].value)]
        found == Lookup(stored, toLowerCase(name), 1)
    IN  IF found = Undefined THEN Null ELSE found

\* Map.prototype.get: keys are compared as they are.
MapGet(entries, key) == Lookup(entries, key, 1)

\* a ?? b on values
NullishValue(a, b) == IF a \in {Undefined, Null} THEN b ELSE a

getSignatureFromHeaders(headers) ==
    IF headers.kind = "Headers"
    THEN NullishValue(HeadersGet(headers.entries, SIGNATURE_HEADER), Undefined)
    ELSE IF headers.kind = "Map"
    THEN MapGet(headers.entries, SIGNATURE_HEADER)
    ELSE LET value == NullishValue(Lookup(headers.entries, SIGNATURE_HEADER, 1),
                                   Lookup(headers.entries, toLowerCase(SIGNATURE_HEADER), 1))
         IN  IF value.kind = "list"
             THEN IF value.items = << >> THEN Undefined ELSE value.items[1]
             ELSE value

\* The spellings of the signature header and one header beside it.
SignatureNames ==
    {SIGNATURE_HEADER, << "X", "Payload", "Hash" >>, << "X", "PAYLOAD", "HASH" >>}
OtherHeader == Header(<< "Content", "Type" >>, StringValue("application/json"))
SignatureStrings == {StringValue("sig_1"), StringValue("sig_2")}
SignatureLists ==
    {ListValue(<< >>), ListValue(<< StringValue("sig_1") >>),
     ListValue(<< StringValue("sig_1"), StringValue("sig_2") >>),
     ListValue(<< StringValue("sig_2"), StringValue("sig_1") >>)}
\* Headers and Map hold strings; a plain object (the headers of an incoming
\* request) also holds lists of strings and undefined.
ValuesOf(kind) ==
    IF kind = "object" THEN SignatureStrings \cup SignatureLists \cup {Undefined}
    ELSE SignatureStrings
Around(entries) ==
    {entries, << OtherHeader >> \o entries, entries \o << OtherHeader >>}
Containers ==
    UNION {{Container(kind, es) :
              es \in UNION ({Around(<< >>)}
                            \cup {Around(<< Header(n, v) >>) :
                                     n \in SignatureNames, v \in ValuesOf(kind)})} :
           kind \in {"Headers", "Map", "object"}}

NoContainer == Container("none", << >>)

InitLookup ==
    /\ headersIn = NoContainer
    /\ signatureOut = Undefined

GetSignatureFromHeaders ==
    /\ headersIn = NoContainer
    /\ \E h \in Containers :
         /\ headersIn' = h
         /\ signatureOut' = getSignatureFromHeaders(h)
    /\ UNCHANGED besidesLookup

\* --------------------------- lib/webhooks.ts: secureCompare, step by step
\* The loop of secureCompare, one iteration per step; visited lists the
\* values of i for which the loop body ran.
CompareChars == {"a", "b", "c"}
CompareStrings == UNION {[1 .. n -> CompareChars] : n \in 0 .. MaxCompareLen}

NoCompare ==
    [pc |-> "idle", a |-> << >>, b |-> << >>, i |-> 0, result |-> 0, visited |-> << >>,
     returned |-> Undef]

InitCompare == compare = NoCompare

\* secureCompare(a, b): the test of the lengths, let result = 0, let i = 0
SecureCompareCalled ==
    /\ compare.pc = "idle"
    /\ \E a \in CompareStrings, b \in CompareStrings :
         compare' = IF Len(a) # Len(b)
                    THEN [NoCompare EXCEPT !.pc = "done", !.a = a, !.b = b,
                                           !.returned = Some(FALSE)]
                    ELSE [NoCompare EXCEPT !.pc = "loop", !.a = a, !.b = b]
    /\ UNCHANGED besidesCompare

\* A loop body that returns false at the first position that differs.
SecureCompareStepShortCircuit ==
    /\ compare.pc = "loop"
    /\ compare.i < Len(compare.a)
    /\ compare' = IF compare.a[compare.i + 1] # compare.b[compare.i + 1]
                  THEN [compare EXCEPT !.pc = "done",
                                       !.visited = Append(@, compare.i),
                                       !.returned = Some(FALSE)]
                  ELSE [compare EXCEPT !.visited = Append(@, compare.i),
                                       !.i = @ + 1]
    /\ UNCHANGED besidesCompare

\* i < a.length: result |= a.charCodeAt(i) ^ b.charCodeAt(i); i++
SecureCompareStep ==
    /\ compare.pc = "loop"
    /\ compare.i < Len(compare.a)
    /\ compare' = [compare EXCEPT
                      !.result = BitOr(@, BitXor(CharCode(compare.a[compare.i + 1]),
                                                 CharCode(compare.b[compare.i + 1]))),
                      !.visited = Append(@, compare.i),
                      !.i = @ + 1]
    /\ UNCHANGED besidesCompare

\* i >= a.length: return result === 0
SecureCompareReturns ==
    /\ compare.pc = "loop"
    /\ compare.i >= Len(compare.a)
    /\ compare' = [compare EXCEPT !.pc = "done", !.returned = Some(compare.result = 0)]
    /\ UNCHANGED besidesCompare

\* ------------------------------ lib/api.ts, second revision of the client
\* The repository holds a second APIClient: its fields are set one by one,
\* its retry delay is 1000 * 2^attempt, and it reads every body as JSON.
DEFAULT_MAX_RETRIES_Rev2 == 0

Rev2Budgets == {Undef, Some(1), Some(2)}

\* The constructor: this.maxRetries = options.maxRetries ?? DEFAULT_MAX_RETRIES
APIClientRev2(o) ==
    [built |-> TRUE, given |-> o.maxRetries,
     maxRetries |-> Nullish(o.maxRetries, DEFAULT_MAX_RETRIES_Rev2)]

NoRev2Client == [built |-> FALSE, given |-> Undef, maxRetries |-> 0]
NoRev2Call ==
    [pc |-> "idle", opts |-> [maxRetries |-> Undef], maxRetries |-> 0, attempt |-> 0,
     lastError |-> Undef, resp |-> NoAnswer, fetches |-> 0, inputs |-> << >>,
     delays |-> << >>, result |-> Pending]

InitRev2 ==
    /\ rev2Client = NoRev2Client
    /\ rev2Call = NoRev2Call

\* What the network answers this client: every body is read with json().
Rev2Answers ==
    {Answer("rejected", 0, Undef, "", FetchFailed),
     Answer("rejected", 0, Undef, "", AbortErr),
     Answer("response", 200, Undef, "data", AbortErr),
     Answer("response", 404, Undef, "errobj", AbortErr),
     Answer("response", 429, Undef, "errobj", AbortErr),
     Answer("response", 503, Undef, "errobj", AbortErr),
     Answer("response", 500, Undef, "plain", AbortErr),
     Answer("bodyRejected", 502, Undef, "", JsonErr)}

\* lib/errors.ts of this client: fromResponse(status, error)
fromResponseRev2(status, error, att) ==
    Err(CASE status = 400 -> "BadRequestError"
          [] status = 401 -> "AuthenticationError"
          [] status = 404 -> "NotFoundError"
          [] status = 429 -> "RateLimitError"
          [] OTHER -> "APIError",
        status, NoRetryAfter, att,
        IF error = Undef THEN "unknown_error" ELSE error[1].code)

\* makeRequest(): the catch branch, for a value that is no APIError
ClassifyRev2(t, att) ==
    IF t.isError /\ t.name = "AbortError"
    THEN Err("TimeoutError", 0, NoRetryAfter, att, "")
    ELSE IF t.isError /\ MsgIncludes(t.msg, "fetch")
    THEN Err("ConnectionError", 0, NoRetryAfter, att, "")
    ELSE Err(IF t.isError THEN t.name ELSE "NonError", 0, NoRetryAfter, att, "")

\* makeRequest(): how the physical attempt att ends on an answer
makeRequestRev2(answer, att) ==
    CASE answer.t \in {"rejected", "bodyRejected"} -> Threw(ClassifyRev2(answer.err, att))
      [] answer.t = "response" /\ ~ResponseOk(answer.status) ->
            Threw(fromResponseRev2(answer.status,
                                   IF answer.body = "errobj" THEN ErrorBody ELSE NoErrorBody,
                                   att))
      [] OTHER -> Gave([from |-> att, v |-> "body"])

\* request(): error instanceof APIError && error.status < 500 && error.status !== 429
IsTerminalRev2(e) == IsAPIError(e) /\ e.status < 500 /\ e.status # 429

\* request(): what the loop does with the end of the current attempt
DecideRev2(cs, answer) ==
    LET out == makeRequestRev2(answer, cs.attempt)
        seen == [cs EXCEPT !.inputs = Append(@, answer)]
    IN  IF out.ok
        THEN [seen EXCEPT !.pc = "done",
                          !.result = [state |-> "resolved", value |-> out.value, err |-> Undef]]
        ELSE IF IsTerminalRev2(out.err[1]) \/ cs.attempt >= cs.maxRetries
        THEN [seen EXCEPT !.pc = "done",
                          !.lastError = out.err,
                          !.result = [state |-> "rejected", value |-> Undef, err |-> out.err]]
        ELSE [seen EXCEPT !.pc = "sleeping",
                          !.lastError = out.err,
                          !.delays = Append(@, 1000 * Pow2(cs.attempt))]

\* makeRequest() up to the await of fetch
FetchingRev2(cs) ==
    [cs EXCEPT !.pc = "fetching", !.resp = NoAnswer, !.fetches = @ + 1]

\* new APIClient(options), for options that carry a key
ConstructRev2 ==
    /\ ~rev2Client.built
    /\ \E m \in Rev2Budgets : rev2Client' = APIClientRev2([maxRetries |-> m])
    /\ UNCHANGED rev2Call
    /\ UNCHANGED besidesRev2

\* get/post: request() and its first makeRequest()
Rev2Request ==
    /\ rev2Client.built
    /\ rev2Call.pc = "idle"
    /\ \E m \in Rev2Budgets :
         LET mr == Nullish(m, rev2Client.maxRetries) IN
         rev2Call' = FetchingRev2([rev2Call EXCEPT !.opts = [maxRetries |-> m],
                                                   !.maxRetries = mr,
                                                   !.attempt = 0])
    /\ UNCHANGED rev2Client
    /\ UNCHANGED besidesRev2

\* fetch settles: a rejection ends the attempt, a response is read with json()
Rev2FetchSettles ==
    /\ rev2Call.pc = "fetching"
    /\ \E answer \in Rev2Answers :
         rev2Call' = IF answer.t = "rejected"
                     THEN DecideRev2(rev2Call, answer)
                     ELSE [rev2Call EXCEPT !.pc = "reading", !.resp = answer]
    /\ UNCHANGED rev2Client
    /\ UNCHANGED besidesRev2

\* response.json() settles
Rev2BodySettles ==
    /\ rev2Call.pc = "reading"
    /\ rev2Call' = DecideRev2(rev2Call, rev2Call.resp)
    /\ UNCHANGED rev2Client
    /\ UNCHANGED besidesRev2

\* The delay elapses: attempt++ and the next makeRequest().
Rev2SleepElapses ==
    /\ rev2Call.pc = "sleeping"
    /\ rev2Call' = FetchingRev2([rev2Call EXCEPT !.attempt = @ + 1])
    /\ UNCHANGED rev2Client
    /\ UNCHANGED besidesRev2

vars == << execVars, hookVars, backoffVars, ctorVars, sessVars, urlVars, rev2Vars, lookupVars, compareVars >>

Init == InitExec /\ InitHook /\ InitBackoff /\ InitCtor /\ InitSess /\ InitURL /\ InitRev2 /\ InitLookup /\ InitCompare

\* Logical calls without a caller signal, against every answer of the network.
Next ==
    \/ StartCall({"none"})
    \/ TimeoutFires
    \/ FetchRejects
    \/ FetchResolves(Statuses)
    \/ BodyDecoded
    \/ BodyRejects
    \/ SleepElapses

Spec == Init /\ [][Next]_vars

\* Logical calls with a caller signal that fires at any moment, against one
\* answer of each class (success, terminal, rate limited, server error).
CancelStatuses == {200, 404, 429, 503}

NextCancel ==
    \/ StartCall(SignalStates)
    \/ CallerAborts
    \/ TimeoutFires
    \/ FetchRejects
    \/ FetchResolves(CancelStatuses)
    \/ BodyDecoded
    \/ BodyRejects
    \/ SleepElapses

SpecCancel == Init /\ [][NextCancel]_vars

\* The host's scheduling: a promise of fetch and one of response.json() is
\* settled in the end, and a timer that stays armed fires in the end. The
\* caller is under no obligation to call or to abort.
\* Logical calls under the host's scheduling: a caller signal that fires at
\* any moment, against a success, a terminal status and a retryable one.
LiveStatuses == {200, 404, 429}

NextLive ==
    \/ StartCall(SignalStates)
    \/ CallerAborts
    \/ TimeoutFires
    \/ FetchRejects
    \/ FetchResolves(LiveStatuses)
    \/ BodyDecoded
    \/ BodyRejects
    \/ SleepElapses

Fairness ==
    /\ WF_vars(FetchRejects \/ FetchResolves(LiveStatuses))
    /\ WF_vars(BodyDecoded \/ BodyRejects)
    /\ WF_vars(TimeoutFires)
    /\ WF_vars(SleepElapses)

\* The budget is set per call, on a client built without options.
InitLive == Init /\ options = APIClient(Undef)

SpecLive == InitLive /\ [][NextLive]_vars /\ Fairness

\* Verification calls of the three revisions of Webhooks.
NextWebhooks ==
    \/ VerifyTimestamped
    \/ VerifyMalformedHeader
    \/ VerifyHmac512
    \/ VerifyCtor
    \/ SignAndVerifyTimestamped
    \/ SignAndVerifyHmac512
    \/ SignAndVerifyCtor

\* The verifier takes nothing from the client's options: one client suffices.
InitWebhooks ==
    InitHook /\ InitExec /\ InitBackoff /\ InitCtor /\ InitSess /\ InitURL /\ InitRev2 /\ InitLookup /\ InitCompare
    /\ options = APIClient(Undef)

SpecWebhooks == InitWebhooks /\ [][NextWebhooks]_vars

\* Calls of calculateBackoff.
NextBackoff == ComputeBackoff

SpecBackoff == InitWebhooks /\ [][NextBackoff]_vars

\* Constructions of a client and the requests issued through it.
NextCtor ==
    \/ ConstructAPIClient
    \/ ConstructPayCoinPro
    \/ IssueRequest

SpecCtor == InitWebhooks /\ [][NextCtor]_vars

\* One logical call at a time through a client, under every configuration
\* of the headers and in both debug modes.
InitSession ==
    /\ InitHook /\ InitExec /\ InitBackoff /\ InitCtor /\ InitURL /\ InitRev2 /\ InitLookup /\ InitCompare
    /\ options = APIClient(Undef)
    /\ \E o \in SessionOptions : IdleSession(APIClientOptions(o))

NextSession ==
    \/ CallRequest({1}, SessionCalls)
    \/ CallFetchSettles({1})
    \/ CallBodySettles({1})
    \/ CallSleepElapses({1})

SpecSession == InitSession /\ [][NextSession]_vars

\* Two logical calls through one client, their steps interleaved.
InitConcurrent ==
    /\ InitHook /\ InitExec /\ InitBackoff /\ InitCtor /\ InitURL /\ InitRev2 /\ InitLookup /\ InitCompare
    /\ options = APIClient(Undef)
    /\ \E o \in ConcurrentOptions : IdleSession(APIClientOptions(o))

NextConcurrent ==
    \/ CallRequest(CallIds, ConcurrentCalls)
    \/ CallFetchSettles(CallIds)
    \/ CallBodySettles(CallIds)
    \/ CallSleepElapses(CallIds)

SpecConcurrent == InitConcurrent /\ [][NextConcurrent]_vars

\* A client of either revision and one logical call through it: the first
\* revision built without options, the second with and without a budget.
DefaultCalls ==
    {[maxRetries |-> m, headers |-> Undef, idempotencyKey |-> Undef] : m \in {Undef, Some(1)}}

\* One client is under test: a call through the first revision's client is
\* made only while no client of the second revision was built, and conversely.
RequestFirstRevision == ~rev2Client.built /\ CallRequest({1}, DefaultCalls)
ConstructSecondRevision == calls[1].pc = "idle" /\ ConstructRev2

NextDefaults ==
    \/ RequestFirstRevision
    \/ CallFetchSettles({1})
    \/ CallBodySettles({1})
    \/ CallSleepElapses({1})
    \/ ConstructSecondRevision
    \/ Rev2Request
    \/ Rev2FetchSettles
    \/ Rev2BodySettles
    \/ Rev2SleepElapses

SpecDefaults == InitWebhooks /\ [][NextDefaults]_vars

\* Calls of getSignatureFromHeaders.
NextLookup == GetSignatureFromHeaders

SpecLookup == InitWebhooks /\ [][NextLookup]_vars

\* Calls of secureCompare, its loop taken one iteration at a time.
NextCompare ==
    \/ SecureCompareCalled
    \/ SecureCompareStep
    \/ SecureCompareReturns

SpecCompare == InitWebhooks /\ [][NextCompare]_vars

\* Calls of buildURL, in both revisions of the client.
NextURL ==
    \/ BuildURL
    \/ BuildURLConcat

SpecURL == InitWebhooks /\ [][NextURL]_vars

\* ===================================================== request executor
RetryableStatuses == {429, 500, 501, 502, 503, 504}
Terminal4xx(status) == status >= 400 /\ status <= 499 /\ status # 429
Settled(o) == o.t = "response" /\ o.body # "pending"
DecodedBodies == {"nojson", "data", "plain", "errobj"}

\* C1: whenever the first physical attempt answered a 4xx status other than
\* 429, the call is over after exactly 1 fetch invocation and is rejected
\* with the error kind the status table gives that status.
C1_Terminal4xxOneAttempt ==
    (Settled(lastOutcome) /\ lastOutcome.attempt = 0 /\ Terminal4xx(lastOutcome.status))
    => /\ pc = "done"
       /\ fetchCalls = 1
       /\ result.state = "rejected"
       /\ result.err[1].kind = StatusKind(lastOutcome.status)

\* C2: with a budget of at least 1, a first attempt answering a retryable
\* status (429, 500..504) never ends the call, and when the second attempt
\* then answers a success whose body is decoded, the call is over after
\* exactly 2 fetch invocations and resolved with that second payload.
C2_RetryThenSuccess ==
    /\ (Settled(lastOutcome) /\ lastOutcome.attempt = 0 /\ maxRetries >= 1
        /\ lastOutcome.status \in RetryableStatuses)
       => (pc = "sleeping" /\ fetchCalls = 1 /\ result.state = "pending")
    /\ (Settled(prevOutcome) /\ prevOutcome.attempt = 0
        /\ prevOutcome.status \in RetryableStatuses
        /\ Settled(lastOutcome) /\ lastOutcome.attempt = 1
        /\ ResponseOk(lastOutcome.status) /\ lastOutcome.body \in DecodedBodies)
       => /\ pc = "done"
          /\ fetchCalls = 2
          /\ result.state = "resolved"
          /\ result.value = Some(Payload(lastOutcome.body, 1))

C2_Witness ==
    /\ pc = "done"
    /\ prevOutcome.attempt = 0 /\ prevOutcome.status = 429
    /\ lastOutcome.attempt = 1 /\ lastOutcome.status = 200 /\ lastOutcome.body = "data"
    /\ fetchCalls = 2
    /\ result.state = "resolved"

\* C3: a call whose caller signal was already aborted when the call began
\* never invokes fetch.
C3_AbortedBeforeNoFetch ==
    call.signal = "aborted" => fetchCalls = 0

\* C4: no fetch invocation and no backoff sleep begins after the caller's
\* signal has fired.
C4_NothingAfterAbort ==
    ~fetchAfterAbort /\ ~sleepAfterAbort

\* C5: the budget request() works with is the per-call maxRetries when one
\* is supplied (0 included) and the configured one otherwise, and a
\* non-negative budget bounds the fetch invocations by budget + 1.
C5_AttemptsWithinBudget ==
    LET budget == IF call.maxRetries # Undef THEN call.maxRetries[1] ELSE options.maxRetries
    IN  pc # "idle" =>
          /\ maxRetries = budget
          /\ budget >= 0 => fetchCalls <= budget + 1

C5_Witness ==
    /\ pc = "done"
    /\ call.maxRetries = Some(0)
    /\ options.maxRetries = 2
    /\ fetchCalls = 1
    /\ result.state = "rejected"
    /\ result.err[1].kind = "InternalServerError"

\* C6: a call rejected with a retryable error has spent its whole budget,
\* and the error it is rejected with is the instance the last physical
\* attempt produced, unchanged.
C6_LastErrorSurfaced ==
    (pc = "done" /\ result.state = "rejected" /\ fetchCalls >= 1
     /\ ~IsTerminal(result.err[1]))
    => /\ fetchCalls = maxRetries + 1
       /\ result.err[1].attempt = fetchCalls - 1
       /\ result.err = lastError

C6_Witness ==
    /\ pc = "done"
    /\ result.state = "rejected"
    /\ fetchCalls = 3
    /\ prevOutcome.status = 429
    /\ result.err[1].kind = "InternalServerError"
    /\ result.err[1].attempt = 2

\* C7: every rejection of a call that made a physical attempt carries a
\* TimeoutError, a ConnectionError or an APIError.
C7_AlwaysClassified ==
    (pc = "done" /\ result.state = "rejected" /\ fetchCalls >= 1)
    => result.err[1].kind \in ClassifiedKinds

\* ===================================================== webhook verifiers
VerificationKinds == {"WebhookSignatureError", "WebhookVerificationError"}
Position(steps, name) ==
    IF \E i \in 1 .. Len(steps) : steps[i] = name
    THEN CHOOSE i \in 1 .. Len(steps) : steps[i] = name
    ELSE 0

\* The digest verify has to recompute for the call's payload and secret.
ExpectedDigest ==
    IF hookIn.variant = "timestamped"
    THEN Hmac("sha256", hookIn.secret,
              ToDigits(hookIn.timestamp) \o << "." >> \o hookIn.payload.s)
    ELSE Hmac("sha512", hookIn.secret, PayloadText(hookIn.payload))

\* C8: in every revision, a call of verify that returns an event ran
\* secureCompare on the supplied signature and the digest recomputed from
\* the received payload and the secret, the comparison returned true, and
\* nothing was parsed before it.
C8_EventOnlyAfterCompare ==
    hookOut.outcome = "event" =>
      /\ hookOut.cmp = "true"
      /\ Position(hookOut.steps, "secureCompare") > 0
      /\ Position(hookOut.steps, "createHmac") > 0
      /\ Position(hookOut.steps, "createHmac") < Position(hookOut.steps, "secureCompare")
      /\ Position(hookOut.steps, "JSON.parse") = 0
            \/ Position(hookOut.steps, "JSON.parse") > Position(hookOut.steps, "secureCompare")
      /\ hookIn.signature # Undef
      /\ IF hookIn.variant = "timestamped"
         THEN secureCompareHex(hookIn.signature[1], ExpectedDigest)
         ELSE secureCompare(ExpectedDigest, hookIn.signature[1])

C8_Witness ==
    /\ hookPc = "done"
    /\ hookIn.variant = "hmac512"
    /\ hookIn.payload.isString
    /\ hookIn.payload.s = << "[", "]" >>
    /\ hookIn.signing.damage = "exact"
    /\ hookOut.outcome = "event"
    /\ hookOut.event = Arr(<< >>)
    /\ Position(hookOut.steps, "JSON.parse") > Position(hookOut.steps, "secureCompare")

LowerChar(c) ==
    CASE c = "A" -> "a" [] c = "B" -> "b" [] c = "C" -> "c" [] c = "D" -> "d"
      [] c = "E" -> "e" [] c = "F" -> "f" [] OTHER -> c
Lower(s) == [i \in 1 .. Len(s) |-> LowerChar(s[i])]

\* C9: a supplied signature that is not the expected hex digest, be it of
\* another length or of the same length with other content, makes verify
\* fail with the verification error. (The spelling of a hex digit in upper
\* case is not counted as other content here.)
C9_WrongSignatureFails ==
    (hookPc = "done" /\ hookIn.signature # Undef
     /\ Lower(hookIn.signature[1]) # ExpectedDigest)
    => (hookOut.outcome = "error" /\ hookOut.kind \in VerificationKinds)

\* C10: a payload string that differs in exactly one character from the
\* payload its signature was correctly computed for fails with the
\* verification error, and JSON.parse is never reached.
C10_TamperedPayloadFails ==
    (/\ hookPc = "done"
     /\ hookIn.payload.isString
     /\ hookIn.secret # << >>
     /\ hookIn.signing.key = hookIn.secret
     /\ hookIn.signing.damage = "exact"
     /\ Len(hookIn.signing.text) = Len(hookIn.payload.s)
     /\ Differences(hookIn.signing.text, hookIn.payload.s) = 1)
    => /\ hookOut.outcome = "error"
       /\ hookOut.kind \in VerificationKinds
       /\ Position(hookOut.steps, "JSON.parse") = 0
       /\ hookOut.msg \notin {"Failed to parse webhook payload", "Invalid JSON in webhook body"}

C10_Witness ==
    /\ hookPc = "done"
    /\ hookIn.variant = "ctor"
    /\ hookIn.payload = StringPayload(<< "1", "[" >>)
    /\ hookIn.signing = [text |-> << "1", "1" >>, key |-> hookIn.secret, damage |-> "exact"]
    /\ hookIn.signature = Some(Hmac("sha512", hookIn.secret, << "1", "1" >>))
    /\ hookOut.outcome = "error"
    /\ hookOut.msg = "Invalid webhook signature"

\* The call verified what the sibling signing operation produced for the
\* same payload and secret, the payload being JSON and the secret not empty.
SignedRoundTrip ==
    /\ hookPc = "done"
    /\ hookIn.signing.damage = "signed"
    /\ hookIn.secret # << >>
    /\ JSONParse(PayloadText(hookIn.payload)).ok
WithinTolerance ==
    LET tolerance == Nullish(hookIn.tolerance, defaultTolerance) IN
    hookIn.variant = "timestamped"
    => (Now - hookIn.timestamp <= tolerance /\ Now - hookIn.timestamp >= 0 - tolerance)
RoundTripAccepted ==
    /\ hookOut.outcome = "event"
    /\ hookOut.event = JSONParse(PayloadText(hookIn.payload)).v
    /\ hookIn.signature = Some(ExpectedDigest)

OutsideWindow ==
    LET tolerance == Nullish(hookIn.tolerance, defaultTolerance)
        age == Now - hookIn.timestamp
    IN  age > tolerance \/ age < 0 - tolerance

\* C12: in the timestamped scheme a header whose timestamp is more than the
\* tolerance in the past or in the future is rejected whatever signature it
\* carries, and no digest is computed or compared in that call.
C12_ReplayWindowBeforeDigest ==
    (hookPc = "done" /\ hookIn.variant = "timestamped" /\ OutsideWindow)
    => /\ hookOut.outcome = "error"
       /\ hookOut.kind = "WebhookVerificationError"
       /\ hookOut.cmp = "none"
       /\ Position(hookOut.steps, "createHmac") = 0
       /\ Position(hookOut.steps, "secureCompare") = 0

C12_Witness ==
    /\ hookPc = "done"
    /\ hookIn.variant = "timestamped"
    /\ hookIn.signing.damage = "exact"
    /\ hookIn.signing.key = hookIn.secret
    /\ hookIn.secret # << >>
    /\ hookIn.signature = Some(ExpectedDigest)
    /\ hookIn.tolerance = Undef
    /\ hookIn.timestamp = Now + defaultTolerance + 1
    /\ hookOut.msg = "Webhook timestamp is in the future"
    /\ hookOut.steps = << "parseHeader" >>

\* C13: in every revision, a call whose supplied signature is empty or
\* absent, or whose shared secret is empty, is rejected and runs no
\* secureCompare.
C13_EmptyInputsRejectedUncompared ==
    (hookPc = "done"
     /\ (hookIn.signature = Undef \/ hookIn.signature = Some(<< >>) \/ hookIn.secret = << >>))
    => /\ hookOut.outcome = "error"
       /\ hookOut.cmp = "none"
       /\ Position(hookOut.steps, "secureCompare") = 0

\* C14: the digest verify checks is computed over the payload string as it
\* was received, never over JSON.stringify of a parsed payload, and the
\* payload is parsed only after the comparison succeeded.
C14_DigestOverReceivedString ==
    hookPc = "done" =>
      /\ Position(hookOut.steps, "createHmac") > 0
         => (hookIn.payload.isString /\ Position(hookOut.steps, "JSON.stringify") = 0)
      /\ Position(hookOut.steps, "JSON.parse") > 0
         => /\ hookOut.cmp = "true"
            /\ Position(hookOut.steps, "secureCompare") > 0
            /\ Position(hookOut.steps, "secureCompare") < Position(hookOut.steps, "JSON.parse")

\* The status table of the specification.
TableKind(status) ==
    IF status = 400 THEN "BadRequestError"
    ELSE IF status = 401 THEN "AuthenticationError"
    ELSE IF status = 403 THEN "PermissionDeniedError"
    ELSE IF status = 404 THEN "NotFoundError"
    ELSE IF status = 409 THEN "ConflictError"
    ELSE IF status = 422 THEN "UnprocessableEntityError"
    ELSE IF status = 429 THEN "RateLimitError"
    ELSE IF status \in {500, 502, 503, 504} THEN "InternalServerError"
    ELSE "APIError"
\* The number of seconds a retry-after header of the model spells.
HeaderSeconds(hdr) ==
    IF hdr = Some(<< "0" >>) THEN 0 ELSE IF hdr = Some(<< "1" >>) THEN 1 ELSE 40
\* The attempt answered a non-success status and makeRequest built its error.
ErrorResponse == Settled(lastOutcome) /\ ~ResponseOk(lastOutcome.status)

\* C15: the error fromResponse builds for a status has the kind the status
\* table gives it and that status in its status field; a RateLimitError
\* carries the integer of the retry-after header when there is one and no
\* retryAfter otherwise, and no other kind carries one.
C15_FromResponseTable ==
    (ErrorResponse /\ lastOutcome.body \in DecodedBodies)
    => /\ lastError # Undef
       /\ lastError[1].kind = TableKind(lastOutcome.status)
       /\ lastError[1].status = lastOutcome.status
       /\ lastOutcome.body \in Bodies =>
            /\ resp.status = lastOutcome.status
            /\ (lastOutcome.status = 429 /\ resp.hdr # Undef)
               => lastError[1].ra = [def |-> TRUE, nan |-> FALSE, v |-> HeaderSeconds(resp.hdr)]
            /\ (lastOutcome.status # 429 \/ resp.hdr = Undef)
               => ~lastError[1].ra.def

C15_Witness ==
    /\ ErrorResponse
    /\ lastOutcome.body = "errobj"
    /\ resp = [status |-> 429, hdr |-> Some(<< "4", "0" >>)]
    /\ lastError[1].kind = "RateLimitError"
    /\ lastError[1].ra.v = 40
    /\ lastError[1].code = "invalid_request"

\* The statuses the status table lists by number.
TableStatuses == {400, 401, 403, 404, 409, 422, 429, 500, 502, 503, 504}

\* C16: when the first physical attempt answers a non-success status the
\* status table does not list, the call is over after exactly 1 fetch
\* invocation and is rejected with a plain APIError, whatever the budget.
C16_UnlistedStatusTerminal ==
    (ErrorResponse /\ lastOutcome.body \in DecodedBodies /\ lastOutcome.attempt = 0
     /\ lastOutcome.status \notin TableStatuses)
    => /\ pc = "done"
       /\ fetchCalls = 1
       /\ result.state = "rejected"
       /\ result.err[1].kind = "APIError"
       /\ result.err[1].status = lastOutcome.status

\* One call of calculateBackoff was made.
BackoffComputed == backoffIn # NoBackoffIn

\* C17: for an error that carries no retry-after hint, the delay computed
\* for retry index k is at least min(1000 * 2^k, 30000), at most 30000 and
\* less than 1300 * 2^k, and is exactly 30000 from k = 5 on.
C17_BackoffBounds ==
    (BackoffComputed /\ ~backoffIn.error.ra.def)
    => LET k == backoffIn.attempt
           lower == Min(1000 * Pow2(k), 30000)
       IN  /\ lower <= backoffOut
           /\ backoffOut <= 30000
           /\ backoffOut < 1300 * Pow2(k)
           /\ k >= 5 => backoffOut = 30000

C17_Witness ==
    /\ BackoffComputed
    /\ backoffIn.attempt = 5
    /\ backoffIn.error.kind = "TimeoutError"
    /\ backoffIn.draw = 0
    /\ backoffOut = 30000

\* C18: for an error that carries a retry-after hint of h >= 0 seconds, 0
\* included, the delay computed is exactly min(h * 1000, 30000), whatever
\* the attempt index and the random draw.
C18_RetryAfterExact ==
    (BackoffComputed /\ backoffIn.error.ra.def /\ ~backoffIn.error.ra.nan
     /\ backoffIn.error.ra.v >= 0)
    => backoffOut = Min(backoffIn.error.ra.v * 1000, 30000)

\* An attempt is in flight: fetch was invoked and the attempt's outcome is
\* not known yet.
InFlight == pc \in {"fetching", "reading"}
OutcomeKnown(o, k) == o.attempt = k /\ o.t # "none" /\ o.body # "pending"

\* Attempts and sleeps alternate: attempt k is the (k+1)th fetch, it starts
\* after k sleeps and after the outcome of attempt k-1, and a sleep starts
\* only on the outcome of the attempt before it.
SequentialState ==
    /\ InFlight =>
         /\ fetchCalls = attempt + 1
         /\ sleeps = attempt
         /\ ~OutcomeKnown(lastOutcome, attempt)
         /\ attempt > 0 => OutcomeKnown(prevOutcome, attempt - 1)
    /\ pc = "sleeping" =>
         /\ fetchCalls = attempt + 1
         /\ sleeps = attempt + 1
         /\ OutcomeKnown(lastOutcome, attempt)
         /\ lastError # Undef /\ lastError[1].attempt = attempt

\* A step that invokes fetch is the first of the call, or is taken from the
\* sleep that followed the previous attempt's retryable error, when its
\* timer fires; it invokes fetch once.
SequentialStep ==
    fetchCalls' # fetchCalls =>
      /\ fetchCalls' = fetchCalls + 1
      /\ ~InFlight /\ InFlight'
      /\ \/ pc = "idle" /\ attempt' = 0
         \/ /\ pc = "sleeping"
            /\ attempt' = attempt + 1
            /\ ~IsTerminal(lastError[1])
            /\ attempt < maxRetries

\* C19: the attempts of one logical call are strictly sequential: no fetch
\* is invoked while an attempt is in flight, and attempt k+1 begins only
\* after attempt k's outcome and the sleep that followed it.
C19_StrictlySequential == [](SequentialState) /\ [][SequentialStep]_vars

C19_Witness ==
    /\ pc = "fetching"
    /\ attempt = 1
    /\ fetchCalls = 2
    /\ sleeps = 1
    /\ callerAborted
    /\ OutcomeKnown(prevOutcome, 0) /\ prevOutcome.status = 503
    /\ delay >= 1000

\* The options given to the constructor hold no API key, or an empty one.
KeyMissing == ctorIn.options.apiKey = Undef \/ ctorIn.options.apiKey = Some("")

\* C20: constructing APIClient or the PayCoinPro facade without an API key,
\* or with an empty one, throws 'API key is required'; an instance, and so
\* every request issued, has a non-empty key.
C20_KeyRequiredAtConstruction ==
    /\ (ctorIn # NoCtorIn /\ KeyMissing)
       => (ctorOut.state = "thrown" /\ ctorOut.msg = "API key is required"
           /\ ctorOut.requests = 0)
    /\ (ctorOut.state = "instance" \/ ctorOut.requests > 0)
       => (ctorOut.apiKey # Undef /\ ctorOut.apiKey # Some("")
           /\ ctorOut.apiKey = ctorIn.options.apiKey)

C20_Witness ==
    /\ ctorIn.via = "PayCoinPro"
    /\ ctorIn.options.apiKey = Some("")
    /\ ctorOut.state = "thrown"
    /\ ctorOut.msg = "API key is required"

\* ================================================ requests of the executor
\* The requests a call has issued so far, one header map per fetch invocation.
Requests(c) == {calls[c].sent[i] : i \in 1 .. Len(calls[c].sent)}
CallHeaders(c) == Nullish(calls[c].opts.headers, NoHeaders)

\* C21 (as stated): every physical request carries an Authorization header
\* equal to "Bearer " followed by the configured API key, whatever the
\* default headers and the per-call headers are.
C21_AlwaysBearerOfKey ==
    \A c \in CallIds : \A h \in Requests(c) :
        /\ "Authorization" \in DOMAIN h
        /\ h["Authorization"] = "Bearer " \o client.apiKey

\* C21: every physical request, on every attempt, carries an Authorization
\* header; it is "Bearer " followed by the configured API key unless the
\* default headers or the per-call headers define Authorization, and then
\* it is the value of the higher of those levels.
C21_BearerUnlessOverridden ==
    \A c \in CallIds : \A h \in Requests(c) :
        /\ "Authorization" \in DOMAIN h
        /\ h["Authorization"] =
              IF "Authorization" \in DOMAIN CallHeaders(c)
              THEN CallHeaders(c)["Authorization"]
              ELSE IF "Authorization" \in DOMAIN client.defaultHeaders
              THEN client.defaultHeaders["Authorization"]
              ELSE "Bearer " \o client.apiKey

C21_Witness ==
    /\ Len(calls[1].sent) = 3
    /\ "X-Trace" \in DOMAIN client.defaultHeaders
    /\ "X-Trace" \in DOMAIN CallHeaders(1)
    /\ \A i \in 1 .. 3 : calls[1].sent[i]["Authorization"] = "Bearer pk_live"

\* The four levels of the header merge, lowest first; the last one is there
\* only for a call that carries an idempotency key.
IdempotencyLevel(c) ==
    IF FalsyIdempotencyKey(calls[c].opts.idempotencyKey) THEN NoHeaders
    ELSE "Idempotency-Key" :> calls[c].opts.idempotencyKey[1]
Levels(c) ==
    << BuiltInHeaders(client.apiKey), client.defaultHeaders, CallHeaders(c),
       IdempotencyLevel(c) >>
Highest(c, name) ==
    CHOOSE l \in 1 .. 4 :
        /\ name \in DOMAIN Levels(c)[l]
        /\ \A k \in (l + 1) .. 4 : name \notin DOMAIN Levels(c)[k]

\* C22: the headers of every physical request are the names defined at any
\* of the levels built-in < config defaultHeaders < per-call headers <
\* idempotency header, each with the value of the highest level that defines
\* it; with an idempotency key, Idempotency-Key is that key even when the
\* per-call headers define Idempotency-Key too.
C22_MergePrecedence ==
    \A c \in CallIds : \A h \in Requests(c) :
        /\ DOMAIN h = UNION {DOMAIN Levels(c)[l] : l \in 1 .. 4}
        /\ \A name \in DOMAIN h : h[name] = Levels(c)[Highest(c, name)][name]
        /\ IdempotencyLevel(c) # NoHeaders
              => h["Idempotency-Key"] = calls[c].opts.idempotencyKey[1]

C22_Witness ==
    /\ Len(calls[1].sent) = 2
    /\ client.defaultHeaders = (("X-Trace" :> "cfg") @@ ("Idempotency-Key" :> "cfg-key"))
    /\ CallHeaders(1) = (("X-Trace" :> "call") @@ ("Idempotency-Key" :> "hdr-key"))
    /\ calls[1].opts.idempotencyKey = Some("idem-1")
    /\ calls[1].sent[2]["Idempotency-Key"] = "idem-1"
    /\ calls[1].sent[2]["X-Trace"] = "call"
    /\ calls[1].sent[2]["Authorization"] = "Bearer pk_live"

\* C23: a call that carries an idempotency key (a non-empty string) sends
\* Idempotency-Key with that very key on every physical attempt, the first
\* and each retry; a call that carries none has nothing added: the header is
\* there only if the default or the per-call headers define it.
C23_IdempotencyKeyForwarded ==
    \A c \in CallIds : \A h \in Requests(c) :
        LET key == calls[c].opts.idempotencyKey IN
        IF key # Undef /\ key[1] # ""
        THEN "Idempotency-Key" \in DOMAIN h /\ h["Idempotency-Key"] = key[1]
        ELSE "Idempotency-Key" \in DOMAIN h
                <=> "Idempotency-Key" \in (DOMAIN client.defaultHeaders \cup DOMAIN CallHeaders(c))

C23_Witness ==
    /\ calls[1].pc = "done"
    /\ Len(calls[1].sent) = 3
    /\ calls[1].opts.idempotencyKey = Some("idem-1")
    /\ calls[1].opts.headers = Undef
    /\ client.defaultHeaders = NoHeaders
    /\ \A i \in 1 .. 3 : calls[1].sent[i]["Idempotency-Key"] = "idem-1"

\* C24: a success response whose body is decoded (or that has no JSON body)
\* resolves the call at once, from the attempt that received it, with the
\* body's data field when the body exposes one and with the decoded body
\* itself otherwise; and a call resolves in no other way.
C24_SuccessUnwrapped ==
    /\ (Settled(lastOutcome) /\ ResponseOk(lastOutcome.status)
        /\ lastOutcome.body \in DecodedBodies)
       => /\ pc = "done"
          /\ result.state = "resolved"
          /\ result.value[1].from = lastOutcome.attempt
          /\ result.value[1].v = CASE lastOutcome.body = "data" -> "data.data"
                                   [] lastOutcome.body = "nojson" -> "undefined"
                                   [] OTHER -> "body"
          /\ fetchCalls = lastOutcome.attempt + 1
    /\ result.state = "resolved"
       => /\ Settled(lastOutcome) /\ ResponseOk(lastOutcome.status)
          /\ lastOutcome.body \in DecodedBodies
          /\ lastOutcome.attempt = attempt

C24_Witness ==
    /\ pc = "done"
    /\ prevOutcome.status = 503 /\ prevOutcome.attempt = 0
    /\ lastOutcome.status = 200 /\ lastOutcome.body = "plain" /\ lastOutcome.attempt = 1
    /\ result.state = "resolved"
    /\ result.value[1].v = "body"
    /\ fetchCalls = 2

\* C25: every non-success response, whatever its body (none, no JSON,
\* declared JSON but undecodable, JSON with or without an error object),
\* ends its attempt with the HTTP error the table gives the status, whose
\* code is the body's or, when the body supplies none, "unknown_error".
C25_ErrorBodyBestEffort ==
    (lastOutcome.t = "response" /\ ~ResponseOk(lastOutcome.status)
     /\ lastOutcome.body \in DecodedBodies \cup {JsonErr.name})
    => /\ lastError # Undef
       /\ lastError[1].attempt = lastOutcome.attempt
       /\ lastError[1].kind = TableKind(lastOutcome.status)
       /\ lastError[1].code = IF lastOutcome.body = "errobj" THEN ErrorBody[1].code
                              ELSE "unknown_error"

\* C26: an attempt whose fetch rejects with an AbortError ends with a
\* TimeoutError, and an attempt whose fetch rejects with anything else ends
\* with a ConnectionError; neither ends with an HTTP error.
C26_TransportFailureClassified ==
    lastOutcome.t = "rejected"
    => /\ lastError # Undef
       /\ lastError[1].attempt = lastOutcome.attempt
       /\ lastError[1].kind = IF lastOutcome.body = AbortErr.name THEN "TimeoutError"
                              ELSE "ConnectionError"

\* What a logical call shows: the requests it issued, the delays it slept
\* and how it settled.
Shown(c) == [requests |-> calls[c].sent, delays |-> calls[c].delays, result |-> calls[c].result]
InFlightCall(c) == calls[c].pc \in {"fetching", "reading"}

\* Whether a call under the configuration cfg goes on after its i-th answer.
GoesOn(cfg, reqOpts, inputs, i) ==
    LET out == makeRequest(inputs[i].answer, i - 1) IN
    /\ ~out.ok
    /\ ~IsTerminal(out.err[1])
    /\ i - 1 < EffectiveMaxRetries(reqOpts.maxRetries, cfg.maxRetries)

\* What a call under cfg shows after the answers and draws in inputs, by the
\* rules of request() alone: one request per answer (and one more while an
\* answer is awaited), one delay per answer it goes on after, and the
\* settlement the last answer brings.
Alone(cfg, reqOpts, inputs, awaiting) ==
    LET n == Len(inputs)
        slept == IF n > 0 /\ GoesOn(cfg, reqOpts, inputs, n) THEN n ELSE n - 1
        last == makeRequest(inputs[n].answer, n - 1)
    IN  [requests |-> [i \in 1 .. (IF awaiting THEN n + 1 ELSE n) |->
                          RequestHeaders(cfg, reqOpts)],
         delays |-> [i \in 1 .. slept |->
                        calculateBackoff(i - 1, makeRequest(inputs[i].answer, i - 1).err[1],
                                         inputs[i].draw)],
         result |-> IF n = 0 \/ GoesOn(cfg, reqOpts, inputs, n) THEN Pending
                    ELSE [state |-> IF last.ok THEN "resolved" ELSE "rejected",
                          value |-> last.value, err |-> last.err]]

AsAlone(c, cfg) ==
    /\ calls[c].pc # "idle" =>
          Shown(c) = Alone(cfg, calls[c].opts, calls[c].inputs, InFlightCall(c))
    /\ \A i \in 1 .. (Len(calls[c].inputs) - 1) : GoesOn(cfg, calls[c].opts, calls[c].inputs, i)

\* C27: in either debug mode a call issues the requests, sleeps the delays
\* and settles the way the answers of the network alone determine under the
\* same configuration with debug off; without debug nothing is logged.
C27_DebugIsObservabilityOnly ==
    /\ AsAlone(1, [client EXCEPT !.debug = FALSE])
    /\ ~client.debug => console = NoLine

C27_Witness ==
    /\ client.debug
    /\ console = [message |-> "Response", attempt |-> 0 - 1, status |-> 503]
    /\ calls[1].pc = "done"
    /\ Len(calls[1].sent) = 3
    /\ Len(calls[1].delays) = 2
    /\ calls[1].result.state = "rejected"

\* ============================================================== buildURL
StripTrailingSlash(s) == IF s[Len(s)] = "/" THEN SubSeq(s, 1, Len(s) - 1) ELSE s
StripLeadingSlash(s) == IF s[1] = "/" THEN Tail(s) ELSE s
UrlBuilt == urlIn # NoUrlIn

\* C28: for every base endpoint and call path, the address buildURL returns
\* is the base endpoint without its trailing slash, one "/", and the path
\* without its leading slash.
C28_OneSeparatingSlash ==
    UrlBuilt => urlOut.href = StripTrailingSlash(urlIn.baseURL) \o << "/" >>
                              \o StripLeadingSlash(urlIn.path)

\* The query entries a parameter map stands for: none for undefined and
\* null, the ISO-8601 string for a Date, one entry per element for a list,
\* the string of the value otherwise, in the order of the map.
RECURSIVE ItemEntries(_, _)
ItemEntries(key, items) ==
    IF items = << >> THEN << >>
    ELSE << Param(key, String(Head(items))) >> \o ItemEntries(key, Tail(items))

RECURSIVE QueryEntries(_)
QueryEntries(params) ==
    IF params = << >> THEN << >>
    ELSE LET key == Head(params).key
             value == Head(params).value
         IN  (CASE value.kind \in {"undefined", "null"} -> << >>
                [] value.kind = "date" -> << Param(key, toISOString(value.n)) >>
                [] value.kind = "list" -> ItemEntries(key, value.items)
                [] OTHER -> << Param(key, String(value)) >>)
             \o QueryEntries(Tail(params))

\* C29: the query of the URL buildURL returns has, in the order of the
\* parameter map, no entry for a null or undefined value, one entry with the
\* ISO-8601 string for a Date, one entry per element and in list order for a
\* list (none for an empty list), and one entry for any other value.
C29_QueryEntriesInOrder ==
    (UrlBuilt /\ urlIn.revision = "resolve")
    => urlOut.search = IF urlIn.params = Undef THEN << >>
                       ELSE QueryEntries(urlIn.params[1])

C29_Witness ==
    /\ urlIn.revision = "resolve"
    /\ urlIn.params = Some(<< Param("tags", ListValue(<< StringValue("a"), StringValue("b") >>)),
                              Param("limit", NumberValue(10)) >>)
    /\ urlOut.search = << Param("tags", << "a" >>), Param("tags", << "b" >>),
                          Param("limit", << "1", "0" >>) >>

\* ========================================================= concurrent calls
\* A step leaves the configuration as it is and touches the locals of at
\* most one logical call.
OneCallSteps ==
    /\ client' = client
    /\ \A c \in CallIds : calls'[c] # calls[c]
          => \A d \in CallIds \ {c} : calls'[d] = calls[d]

\* C30: with two logical calls in flight on one client, under every
\* interleaving of their steps the configuration never changes, no step of
\* one call touches the other, and each call issues the requests, sleeps the
\* delays and settles the way its own answers alone determine.
C30_ConcurrentCallsIndependent ==
    /\ [](\A c \in CallIds : AsAlone(c, client))
    /\ [][OneCallSteps]_vars

C30_Witness ==
    /\ calls[1].pc = "reading"
    /\ Len(calls[1].sent) = 2
    /\ calls[1].inputs[1].answer.status = 503
    /\ calls[2].pc = "sleeping"
    /\ calls[2].inputs[1].answer.t = "rejected"
    /\ calls[2].lastError[1].kind = "ConnectionError"

\* ===================================================== the default budget
\* C31: a call made without a per-call maxRetries through a client built
\* without a maxRetries option works with a retry budget of 2, and when it
\* is rejected with a retryable error it has made exactly 3 physical
\* attempts; this for the client of either revision.
C31_DefaultBudgetTwo ==
    /\ (calls[1].pc # "idle" /\ calls[1].opts.maxRetries = Undef)
       => /\ calls[1].maxRetries = 2
          /\ (calls[1].result.state = "rejected" /\ ~IsTerminal(calls[1].result.err[1]))
             => Len(calls[1].sent) = 3
    /\ (rev2Call.pc # "idle" /\ rev2Client.given = Undef /\ rev2Call.opts.maxRetries = Undef)
       => /\ rev2Call.maxRetries = 2
          /\ (rev2Call.result.state = "rejected" /\ ~IsTerminalRev2(rev2Call.result.err[1]))
             => rev2Call.fetches = 3

\* ===================================================== signature header
SignatureEntries(h) ==
    {i \in 1 .. Len(h.entries) : toLowerCase(h.entries[i].name) = SIGNATURE_HEADER}

\* C32: for a Headers object, a Map and a plain object alike, when the
\* container holds the signature header under some capitalisation of
\* x-payload-hash, getSignatureFromHeaders returns its value, the first
\* element when the value is an array; it returns undefined when the
\* container does not hold the header.
C32_CaseInsensitiveLookup ==
    headersIn # NoContainer =>
      IF SignatureEntries(headersIn) = {}
      THEN signatureOut = Undefined
      ELSE LET value == headersIn.entries[CHOOSE i \in SignatureEntries(headersIn) : TRUE].value
           IN  signatureOut = IF value.kind = "list"
                              THEN IF value.items = << >> THEN Undefined ELSE value.items[1]
                              ELSE value

\* ===================================================== signals and timers
InAttempt == pc \in {"fetching", "reading"}
SourceFired == timer = "fired" \/ (call.signal # "none" /\ callerAborted)

\* C33: during a physical attempt the signal given to fetch is aborted
\* exactly when the timeout source or the caller's signal has fired; it is
\* aborted from its creation when the caller's signal had fired before; and
\* while the attempt lasts it never goes back from aborted to live.
C33_CombinedSignalLatches ==
    /\ [](InAttempt => (sigAborted <=> SourceFired))
    /\ [][/\ fetchCalls' = fetchCalls + 1
             => sigAborted' = (call'.signal # "none" /\ callerAborted')
          /\ (InAttempt /\ InAttempt' /\ fetchCalls' = fetchCalls /\ sigAborted)
             => sigAborted']_vars

C33_Witness ==
    /\ pc = "fetching"
    /\ attempt = 1
    /\ call.signal = "live"
    /\ callerAborted
    /\ timer = "fired"
    /\ sigAborted

\* C34: as long as a physical attempt has not produced its outcome (the
\* response received and its body decoded) its timeout source is armed or
\* has fired, so that the elapsing of the effective timeout aborts it; and
\* an attempt whose timeout source fired and whose fetch rejected on the
\* abort ends with a TimeoutError.
C34_AttemptBoundedByTimeout ==
    /\ InAttempt => timer \in {"pending", "fired"}
    /\ (timer = "fired" /\ lastOutcome.attempt = attempt /\ lastOutcome.t = "rejected"
        /\ lastOutcome.body = "AbortError")
       => /\ lastError # Undef
          /\ lastError[1].kind = "TimeoutError"
          /\ lastError[1].attempt = attempt

\* ===================================================== retry-after hint
\* The answer is a 429 response that carries a retry-after hint.
HintedAnswer(a) == a.t = "response" /\ a.status = 429 /\ a.hdr # Undef
\* The answer makes a retryable error that carries no hint.
UnhintedRetryable(a, att) ==
    LET out == makeRequest(a, att)
    IN  ~out.ok /\ ~IsTerminal(out.err[1]) /\ ~HintedAnswer(a)

\* C35: when the first attempt of a call answers 429 with a retry-after hint
\* of h seconds, the first delay is min(h * 1000, 30000); when the second
\* attempt then fails with a retryable error that carries no hint, the
\* second delay is the exponential backoff of attempt index 1, at least 2000
\* and less than 2600, whatever the hint was.
C35_HintOnlyForNextRetry ==
    LET cs == calls[1] IN
    /\ (Len(cs.delays) >= 1 /\ HintedAnswer(cs.inputs[1].answer))
       => cs.delays[1] = Min(HeaderSeconds(cs.inputs[1].answer.hdr) * 1000, 30000)
    /\ (Len(cs.delays) >= 2 /\ HintedAnswer(cs.inputs[1].answer)
        /\ UnhintedRetryable(cs.inputs[2].answer, 1))
       => /\ cs.delays[2] >= 2000
          /\ cs.delays[2] < 2600
          /\ cs.delays[2] = calculateBackoff(1, makeRequest(cs.inputs[2].answer, 1).err[1],
                                             cs.inputs[2].draw)

\* ===================================================== constant-time compare
\* C36: for two strings of equal length the loop of secureCompare runs its
\* body for every position once, in order, and returns only after the last
\* one, so the positions examined are 0 .. length-1 whatever the contents;
\* the value returned is true exactly when the strings are equal. For
\* strings of unequal length it returns false without running the body.
C36_CompareVisitsEveryPosition ==
    LET n == Len(compare.a) IN
    /\ compare.pc = "loop"
       => /\ compare.visited = [k \in 1 .. compare.i |-> k - 1]
          /\ compare.i <= n
          /\ compare.returned = Undef
    /\ (compare.pc = "done" /\ n = Len(compare.b))
       => /\ compare.visited = [k \in 1 .. n |-> k - 1]
          /\ compare.returned = Some(compare.a = compare.b)
          /\ compare.returned = Some(secureCompare(compare.a, compare.b))
    /\ (compare.pc = "done" /\ n # Len(compare.b))
       => /\ compare.visited = << >>
          /\ compare.returned = Some(FALSE)

C36_Witness ==
    /\ compare.pc = "done"
    /\ compare.a = << "a", "b", "c" >>
    /\ compare.b = << "b", "b", "c" >>
    /\ compare.visited = << 0, 1, 2 >>
    /\ compare.returned = Some(FALSE)

\* ===================================================== range of the delay
\* C37: the delay calculateBackoff returns is at least 0 and at most 30000,
\* for every attempt index, every draw and every error, a RateLimitError
\* whose retry-after parsed to a negative number, to 0 or to NaN included.
C37_DelayWithinRange ==
    BackoffComputed => (0 <= backoffOut /\ backoffOut <= 30000)

\* ===================================================== the fallback throw
\* The error of the statement after the loop: new Error('Request failed'),
\* made by no physical attempt.
FallbackError == Err("Error", 0, NoRetryAfter, 0 - 1, "")

\* C38: every logical call invokes fetch at least once, and no call is
\* rejected by the statement that follows the retry loop, whatever the
\* configured or per-call maxRetries, the negative ones included.
C38_FallbackUnreachable ==
    pc # "idle" =>
      /\ fetchCalls >= 1
      /\ result.state = "rejected" => result.err[1] # FallbackError

\* ===================================================== timer hygiene
\* C39: a timeout timer is pending only while the fetch of the attempt that
\* armed it is pending: once makeRequest has got its response or has thrown,
\* the timer is cleared or has fired, so none is pending while the body is
\* read, during a backoff sleep or after the call ended; an attempt begins
\* with no timer of an earlier attempt pending, and a timer fires only
\* during the fetch of its own attempt.
C39_TimerHygiene ==
    /\ [](pc # "fetching" => timer # "pending")
    /\ [][/\ fetchCalls' = fetchCalls + 1 => timer # "pending"
          /\ (timer' = "fired" /\ timer # "fired")
             => (pc = "fetching" /\ timer = "pending" /\ fetchCalls' = fetchCalls)]_vars

C39_Witness ==
    /\ pc = "sleeping"
    /\ attempt = 1
    /\ callerAborted
    /\ lastError # Undef
    /\ lastError[1].kind = "ConnectionError"
    /\ timer = "cleared"

\* ===================================================== termination
\* C40: under the host's scheduling every logical call that was begun comes
\* to an end, resolved with a payload or rejected with an error, and on the
\* way it invokes fetch at most budget + 1 times and sleeps at most budget
\* times.
C40_CallTerminates ==
    /\ (pc # "idle") ~> (pc = "done" /\ result.state \in {"resolved", "rejected"})
    /\ [](pc # "idle" => /\ fetchCalls <= (IF maxRetries < 0 THEN 0 ELSE maxRetries + 1)
                         /\ sleeps <= (IF maxRetries < 0 THEN 0 ELSE maxRetries))

C40_Witness ==
    /\ pc = "done"
    /\ maxRetries = 2
    /\ fetchCalls = 3
    /\ sleeps = 2
    /\ callerAborted
    /\ result.state = "rejected"
    /\ result.err[1].kind = "TimeoutError"

====
